---- MODULE Spec2Model ----
(***************************************************************************)
(* Model of the TeMoto robot manager: the feature load/unload lifecycle of *)
(* a Robot (src/src/robot.cpp) and the load/unload/candidate selection of  *)
(* the RobotManager (src/src/robot_manager.cpp).                           *)
(*                                                                         *)
(* One coordinator is modelled.  Its process launcher, the ROS master      *)
(* (parameters, topics, services) and the remote coordinators are the      *)
(* environment: their answers are nondeterministic choices.                *)
(***************************************************************************)
EXTENDS Integers, Sequences, FiniteSets, TLC

VARIABLES
  configs,        \* heap of RobotConfig objects (RobotConfigPtr targets)
  local_configs,  \* RobotManager::local_configs_  (sequence of config objects)
  remote_configs, \* RobotManager::remote_configs_ (sequence of config objects)
  loaded_robots,  \* RobotManager::loaded_robots_
  resources,      \* resource registrar catalog: one entry per id ever issued
  failed,         \* ids for which the registrar has received a FAILED status
  cur,            \* the Load request in progress (position inside Robot::load)
  nreq,           \* number of Load/Unload requests received so far
  reply,          \* outcome of the latest Load/Unload request
  unload_log,     \* release requests issued by the latest Robot destructor
  fwd_log,        \* load requests forwarded to other coordinators
  sync_sent,      \* config advertisements published by this coordinator
  alive,          \* FALSE once the process has been terminated
  find_name,      \* argument of the latest direct findRobot call
  find_res,       \* its result
  find_calls,     \* number of direct findRobot calls
  robot_calls,    \* Robot methods run by the latest operation request
  planner_calls,  \* planning-session calls made by the latest operation request
  client_calls,   \* service calls it sent to other coordinators
  sync_recv,      \* the latest config-sync message handled, with its number
  desc_read,      \* the latest description file read, with its number
  net,            \* the coordinators of a system of several, one entry each
  deleted_params  \* parameter namespaces deleted by the latest Robot destructor

vars == <<configs, local_configs, remote_configs, loaded_robots, resources,
          failed, cur, nreq, reply, unload_log, fwd_log, sync_sent, alive,
          find_name, find_res, find_calls, robot_calls, planner_calls,
          client_calls, sync_recv, desc_read, net, deleted_params>>

\* What the latest operation request did.
op_vars == <<robot_calls, planner_calls, client_calls>>

----------------------------------------------------------------------------
(* Bounds *)

MaxRequests == 2
MaxPolls == 1
MaxFailed == 1
MaxRel == 1
MaxFind == 3
FindRel == 2
MaxLoaded == 2
MaxSync == 2
MaxDoc == 1
MaxFiles == 2
MaxEntries == 2

----------------------------------------------------------------------------
(* Vocabulary *)

NULL == 0
UNASSIGNED_ID == 0

LocalNs == "ns_local"
RemoteNs == "ns_remote"

Features == {"urdf", "manipulation", "navigation", "gripper"}
DriverFeatures == {"manipulation", "navigation", "gripper"}

\* The load steps of Robot::load in the order the code runs them.
StageOrder == <<"urdf", "manipulation_driver", "manipulation",
                "navigation_driver", "navigation",
                "gripper_driver", "gripper">>
Stages == {StageOrder[i] : i \in 1..Len(StageOrder)}

DriverStage(f) == IF f = "manipulation" THEN "manipulation_driver"
                  ELSE IF f = "navigation" THEN "navigation_driver"
                  ELSE "gripper_driver"

FeatureOf(s) == IF s \in {"manipulation_driver", "manipulation"} THEN "manipulation"
                ELSE IF s \in {"navigation_driver", "navigation"} THEN "navigation"
                ELSE IF s \in {"gripper_driver", "gripper"} THEN "gripper"
                ELSE "urdf"

CfgIds == {1, 2, 3}
Rels == 0..MaxRel

NoFlags == [s \in Stages |-> FALSE]
NoIds == [s \in Stages |-> UNASSIGNED_ID]

MkConfig(n, ns, r, en, den, g) ==
  [name |-> n, temoto_namespace |-> ns, reliability |-> r,
   enabled |-> en, driver_enabled |-> den, planning_groups |-> g,
   resource_id |-> NoIds, loaded |-> NoFlags, active_planning_group |-> ""]

NoSync == [n |-> 0, action |-> "NONE", temoto_namespace |-> "", ok |-> TRUE,
           robots |-> <<>>]

\* No description file has been read.
NoDescription == [n |-> 0, doc |-> [has_robots |-> FALSE, ok |-> FALSE, robots |-> <<>>]]

\* No system of several coordinators is being looked at.
NoNet == <<>>

Idle == [pc |-> "idle", cfg |-> NULL, stage |-> 0, polls |-> 0, groups |-> <<>>]
\* A service response: what kind of answer it is and its content.
Response(kind, data) == [kind |-> kind, data |-> data]
NoResponse == Response("none", <<>>)

NoReply == [req |-> 0, op |-> "none", name |-> "", code |-> "NONE", cfg |-> NULL,
            robot |-> 0, request |-> [robot_name |-> ""], response |-> NoResponse]

----------------------------------------------------------------------------
(* RobotManager::findRobot *)

RECURSIVE SelectByName(_, _)
\* std::copy_if over configs keeping those whose name equals robot_name.
SelectByName(robot_name, cfgs) ==
  IF cfgs = <<>> THEN <<>>
  ELSE IF configs[Head(cfgs)].name = robot_name
       THEN <<Head(cfgs)>> \o SelectByName(robot_name, Tail(cfgs))
       ELSE SelectByName(robot_name, Tail(cfgs))

\* The candidate list built at the top of findRobot.
Candidates(robot_name, cfgs) ==
  IF robot_name = "" THEN cfgs ELSE SelectByName(robot_name, cfgs)

\* The comparator with the comparison reversed.
ReliabilityBefore_Mutant(rc1, rc2) == configs[rc1].reliability < configs[rc2].reliability

\* The comparator handed to std::sort: rc1 goes before rc2.
ReliabilityBefore(rc1, rc2) == configs[rc1].reliability > configs[rc2].reliability

IndexPermutations(sq) ==
  {p \in [1..Len(sq) -> 1..Len(sq)] : \A i, j \in 1..Len(sq) : p[i] = p[j] => i = j}

\* std::sort is not a stable sort: every arrangement of the candidates that
\* is ordered by the comparator is a possible outcome.
SortOutcomes(cands) ==
  {[i \in 1..Len(cands) |-> cands[p[i]]] : p \in
     {q \in IndexPermutations(cands) :
        \A i, j \in 1..Len(cands) :
           i < j => ~ReliabilityBefore(cands[q[j]], cands[q[i]])}}

\* The set of values findRobot may return (NULL when there is no candidate).
findRobot(robot_name, cfgs) ==
  LET candidates == Candidates(robot_name, cfgs)
  IN  IF candidates = <<>> THEN {NULL}
      ELSE {Head(sorted) : sorted \in SortOutcomes(candidates)}

----------------------------------------------------------------------------
(* Robot: the load sequence *)

\* An ownership test that takes every config for a local one.
isLocal_Mutant(c) == TRUE

\* Robot::isLocal
isLocal(c) == configs[c].temoto_namespace = LocalNs

\* The guard with the negation of its last operand dropped.
MissingFeatures_Mutant(cfg) ==
  /\ ~cfg.enabled["urdf"] /\ ~cfg.enabled["manipulation"]
  /\ ~cfg.enabled["navigation"] /\ cfg.enabled["gripper"]

\* The guard at the top of Robot::load: no feature is enabled.
MissingFeatures(cfg) == \A f \in Features : ~cfg.enabled[f]

\* Whether Robot::load runs the load function of stage s and that function
\* gets past its "already loaded" early return.
StageRuns(cfg, s) ==
  IF s = "urdf" THEN cfg.enabled["urdf"]
  ELSE /\ cfg.enabled[FeatureOf(s)]
       /\ cfg.driver_enabled[FeatureOf(s)]
       /\ ~cfg.loaded[s]

\* Index of the first stage at or after position i that issues a launch
\* request, 0 when Robot::load has nothing more to do.
NextStage(cfg, i) ==
  LET todo == {j \in i..Len(StageOrder) : StageRuns(cfg, StageOrder[j])}
  IN  IF todo = {} THEN 0 ELSE CHOOSE j \in todo : \A k \in todo : j <= k

\* waitForParam and waitForTopic poll hasFailed(interrupt_res_id);
\* ros::service::waitForService(gripper_topic, -1) does not.
Interruptible(s) == s # "gripper"

\* loadGripperDriver sleeps instead of waiting for a readiness signal and
\* never calls setDriverLoaded.
WaitsForSignal(s) == s # "gripper_driver"

\* RobotConfig::adjustReliability: moves the reliability toward the given value.
adjustReliability(cfg, target) ==
  [cfg EXCEPT !.reliability =
     IF cfg.reliability > target THEN cfg.reliability - 1
     ELSE IF cfg.reliability < target THEN cfg.reliability + 1
     ELSE cfg.reliability]

\* The advertised form of a config: runtime fields are not part of it.
getYAMLConfig(cfg) == [name |-> cfg.name, reliability |-> cfg.reliability]

\* The Robot constructor returned: loadCb pushes the Robot and returns.
RobotLoaded(c, cfgs, groups, rp) ==
  /\ configs' = cfgs
  /\ loaded_robots' = Append(loaded_robots,
        [config |-> c, planning_groups |-> groups, is_plan_valid |-> FALSE,
         last_plan |-> NULL, last_plan_group |-> "", req |-> rp.req])
  /\ cur' = Idle
  /\ reply' = [rp EXCEPT !.code = "OK"]
  /\ UNCHANGED sync_sent

\* Robot::load goes on with the stages from position i.
Continue(c, cfgs, i, groups, rp) ==
  LET n == NextStage(cfgs[c], i)
  IN  IF n = 0 THEN RobotLoaded(c, cfgs, groups, rp)
      ELSE /\ configs' = cfgs
           /\ cur' = [pc |-> "launch", cfg |-> c, stage |-> n, polls |-> 0,
                      groups |-> groups]
           /\ reply' = rp
           /\ UNCHANGED <<loaded_robots, sync_sent>>

\* A loadCb that keeps the Robot although its constructor threw.
LoadThrows_Mutant(cfgs, code, rp) ==
  /\ configs' = cfgs
  /\ cur' = Idle
  /\ reply' = [rp EXCEPT !.code = code]
  /\ loaded_robots' =
       IF rp.cfg = NULL THEN loaded_robots
       ELSE Append(loaded_robots,
              [config |-> rp.cfg, planning_groups |-> <<>>, is_plan_valid |-> FALSE,
               last_plan |-> NULL, last_plan_group |-> "", req |-> rp.req])
  /\ UNCHANGED sync_sent

\* An ErrorStack leaves the Robot constructor: loadCb forwards it.
LoadThrows(cfgs, code, rp) ==
  /\ configs' = cfgs
  /\ cur' = Idle
  /\ reply' = [rp EXCEPT !.code = code]
  /\ UNCHANGED <<loaded_robots, sync_sent>>

\* Any other exception leaves the Robot constructor: the catch (...) branch
\* of loadCb downgrades and advertises the config.
LoadThrowsOther(c, cfgs) ==
  LET adjusted == [cfgs EXCEPT ![c] = adjustReliability(cfgs[c], 0)]
  IN  /\ configs' = adjusted
      /\ sync_sent' = Append(sync_sent, <<getYAMLConfig(adjusted[c])>>)
      /\ cur' = Idle
      /\ reply' = [reply EXCEPT !.code = "LOAD_FAILED"]
      /\ UNCHANGED loaded_robots

\* The Robot constructor: a locally owned Robot runs load().
Robot(c, rp) ==
  IF isLocal(c)
  THEN IF MissingFeatures(configs[c])
       THEN LoadThrows(configs, "ROBOT_CONFIG_FAIL", rp)
       ELSE Continue(c, configs, 1, <<>>, rp)
  ELSE RobotLoaded(c, configs, <<>>, rp)

----------------------------------------------------------------------------
(* RobotManager::loadCb *)

RequestNames == {"", "arm1", "base1", "arm2"}

\* A loadCb that ranks local and remote candidates together.
ResolveLoad_Mutant(robot_name) ==
  LET both == findRobot(robot_name, local_configs \o remote_configs)
  IN  IF both = {NULL} THEN {[kind |-> "none", cfg |-> NULL]}
      ELSE {[kind |-> IF \E i \in 1..Len(local_configs) : local_configs[i] = c
                      THEN "local" ELSE "remote",
             cfg |-> c] : c \in both}

\* Which config loadCb settles on: local candidates first, remote candidates
\* only when findRobot returned nothing for the local list.
ResolveLoad(robot_name) ==
  LET locals == findRobot(robot_name, local_configs)
      remotes == findRobot(robot_name, remote_configs)
  IN  IF locals # {NULL} THEN {[kind |-> "local", cfg |-> c] : c \in locals}
      ELSE IF remotes # {NULL} THEN {[kind |-> "remote", cfg |-> c] : c \in remotes}
      ELSE {[kind |-> "none", cfg |-> NULL]}

\* A forward that goes to this coordinator's own manager.
ForwardAddress_Mutant(c) == LocalNs

\* The manager a remote Load is sent to: the namespace the config carries.
ForwardAddress(c) == configs[c].temoto_namespace

loadCb(robot_name) ==
  /\ alive /\ cur.pc = "idle" /\ nreq < MaxRequests
  /\ nreq' = nreq + 1
  /\ \E sel \in ResolveLoad(robot_name) :
       LET rp == [req |-> nreq + 1, op |-> "load", name |-> robot_name,
                  code |-> "PENDING", cfg |-> sel.cfg, robot |-> 0,
                  request |-> [robot_name |-> robot_name],
                  response |-> NoResponse]
       IN  \/ /\ sel.kind = "local"
              /\ Robot(sel.cfg, rp)
              /\ UNCHANGED fwd_log
           \/ /\ sel.kind = "remote"
              /\ \E ok \in BOOLEAN :
                   /\ fwd_log' = Append(fwd_log,
                        [req |-> nreq + 1, to |-> ForwardAddress(sel.cfg),
                         robot_name |-> robot_name, ok |-> ok])
                   /\ IF ok THEN Robot(sel.cfg, rp)
                      ELSE LoadThrows(configs, "REMOTE_CALL_FAILED", rp)
           \/ /\ sel.kind = "none"
              /\ LoadThrows(configs, "ROBOT_NOT_FOUND", rp)
              /\ UNCHANGED fwd_log
  /\ UNCHANGED <<local_configs, remote_configs, resources, failed, unload_log,
                 alive, find_name, find_res, find_calls, op_vars, sync_recv, desc_read, net, deleted_params>>

\* Robot::rosExecute inside a load function, followed by setResourceId.
rosExecute ==
  /\ alive /\ cur.pc = "launch"
  /\ LET c == cur.cfg
         s == StageOrder[cur.stage]
         id == Len(resources) + 1
         cfgs == [configs EXCEPT ![c].resource_id[s] = id]
     IN  \/ /\ resources' = Append(resources,
                  [stage |-> s, cfg |-> c, req |-> reply.req,
                   ready |-> FALSE, released |-> FALSE])
            /\ IF WaitsForSignal(s)
               THEN /\ configs' = cfgs
                    /\ cur' = [cur EXCEPT !.pc = "wait", !.polls = 0]
                    /\ UNCHANGED <<loaded_robots, reply, sync_sent>>
               ELSE Continue(c, cfgs, cur.stage + 1, cur.groups, reply)
         \/ /\ LoadThrows(configs, "RESOURCE_REQUEST_FAIL", reply)
            /\ UNCHANGED resources
  /\ UNCHANGED <<local_configs, remote_configs, failed, nreq, unload_log, fwd_log,
                 alive, find_name, find_res, find_calls, op_vars, sync_recv, desc_read, net, deleted_params>>

\* One iteration of a readiness wait that finds the parameter, topic or
\* service: the load function goes on (setLoaded, or the planning groups).
waitFound ==
  /\ alive /\ cur.pc = "wait"
  /\ LET c == cur.cfg
         s == StageOrder[cur.stage]
         id == configs[c].resource_id[s]
     IN  /\ resources' = [resources EXCEPT ![id].ready = TRUE]
         /\ IF s = "manipulation"
            THEN /\ cur' = [cur EXCEPT !.pc = "groups"]
                 /\ UNCHANGED <<configs, loaded_robots, reply, sync_sent>>
            ELSE Continue(c, [configs EXCEPT ![c].loaded[s] = TRUE],
                          cur.stage + 1, cur.groups, reply)
  /\ UNCHANGED <<local_configs, remote_configs, failed, nreq, unload_log, fwd_log,
                 alive, find_name, find_res, find_calls, op_vars, sync_recv, desc_read, net, deleted_params>>

\* One iteration that does not find the signal and sees hasFailed: throws.
waitInterrupted ==
  /\ alive /\ cur.pc = "wait"
  /\ Interruptible(StageOrder[cur.stage])
  /\ configs[cur.cfg].resource_id[StageOrder[cur.stage]] \in failed
  /\ LoadThrows(configs, "SERVICE_STATUS_FAIL", reply)
  /\ UNCHANGED <<local_configs, remote_configs, resources, failed, nreq,
                 unload_log, fwd_log, alive, find_name, find_res, find_calls, op_vars, sync_recv, desc_read, net, deleted_params>>

\* One iteration that does not find the signal and sleeps.
waitSleep ==
  /\ alive /\ cur.pc = "wait"
  /\ ~(/\ Interruptible(StageOrder[cur.stage])
       /\ configs[cur.cfg].resource_id[StageOrder[cur.stage]] \in failed)
  /\ cur.polls < MaxPolls
  /\ cur' = [cur EXCEPT !.polls = @ + 1]
  /\ UNCHANGED <<configs, local_configs, remote_configs, loaded_robots, resources,
                 failed, nreq, reply, unload_log, fwd_log, sync_sent, alive,
                 find_name, find_res, find_calls, op_vars, sync_recv, desc_read, net, deleted_params>>

\* One round of the addPlanningGroup loop of loadManipulationController:
\* the next group of the config is opened and kept by the Robot, or opening
\* it throws.
addPlanningGroups ==
  /\ alive /\ cur.pc = "groups"
  /\ Len(cur.groups) < Len(configs[cur.cfg].planning_groups)
  /\ \/ /\ cur' = [cur EXCEPT
                      !.groups = Append(@, configs[cur.cfg].planning_groups[Len(@) + 1])]
        /\ UNCHANGED <<configs, loaded_robots, reply, sync_sent>>
     \/ LoadThrowsOther(cur.cfg, configs)
  /\ UNCHANGED <<local_configs, remote_configs, resources, failed, nreq,
                 unload_log, fwd_log, alive, find_name, find_res, find_calls, op_vars, sync_recv, desc_read, net, deleted_params>>

\* ftr.setLoaded(true) after the loop: the controller is marked loaded and
\* Robot::load goes on.
setManipulationLoaded ==
  /\ alive /\ cur.pc = "groups"
  /\ Len(cur.groups) = Len(configs[cur.cfg].planning_groups)
  /\ Continue(cur.cfg, [configs EXCEPT ![cur.cfg].loaded["manipulation"] = TRUE],
              cur.stage + 1, cur.groups, reply)
  /\ UNCHANGED <<local_configs, remote_configs, resources, failed, nreq,
                 unload_log, fwd_log, alive, find_name, find_res, find_calls, op_vars, sync_recv, desc_read, net, deleted_params>>

----------------------------------------------------------------------------
(* Robot::~Robot and RobotManager::unloadCb *)

\* A destructor that releases the navigation driver before its controller.
DestructorOrder_Mutant == <<"urdf", "manipulation", "manipulation_driver",
                            "navigation_driver", "navigation",
                            "gripper", "gripper_driver">>

\* The order in which the destructor looks at the loaded flags.
DestructorOrder == <<"urdf", "manipulation", "manipulation_driver",
                     "navigation", "navigation_driver",
                     "gripper", "gripper_driver">>

RECURSIVE LoadedStages(_, _)
\* The stages, in destructor order, whose isLoaded()/isDriverLoaded() is true.
LoadedStages(cfg, order) ==
  IF order = <<>> THEN <<>>
  ELSE IF cfg.loaded[Head(order)]
       THEN <<Head(order)>> \o LoadedStages(cfg, Tail(order))
       ELSE LoadedStages(cfg, Tail(order))

\* The release requests a destructor of a Robot on config c issues.
\* Only a locally owned Robot releases anything.
ToRelease(c) ==
  IF isLocal(c) THEN LoadedStages(configs[c], DestructorOrder) ELSE <<>>

\* RobotConfig::getAbsRobotNamespace: the robot's namespace under its owner.
getAbsRobotNamespace(cfg) == <<cfg.temoto_namespace, cfg.name>>

\* The end of ~Robot: a locally owned Robot whose releases all returned
\* deletes the parameters under its namespace.
deleteParam(c, released) ==
  IF isLocal(c) /\ released THEN <<getAbsRobotNamespace(configs[c])>> ELSE <<>>

\* A destructor that releases the resources and leaves the flags set.
setLoadedFalse_Mutant(flags, done) == flags

\* setLoaded(false) / setDriverLoaded(false) after each release that returned.
setLoadedFalse(flags, done) ==
  [s \in Stages |-> IF s \in done THEN FALSE ELSE flags[s]]

\* A lookup that takes the first loaded Robot whatever its name.
FindLoaded_Mutant(robot_name) == IF loaded_robots = <<>> THEN 0 ELSE 1

\* Position of the first loaded Robot with the given name, 0 when none.
FindLoaded(robot_name) ==
  LET hits == {i \in 1..Len(loaded_robots) :
                 configs[loaded_robots[i].config].name = robot_name}
  IN  IF hits = {} THEN 0 ELSE CHOOSE i \in hits : \A j \in hits : i <= j

RemoveAt(sq, i) == SubSeq(sq, 1, i - 1) \o SubSeq(sq, i + 1, Len(sq))

\* unloadCb erases the Robot, which runs ~Robot.  unloadClientResource is
\* called once per loaded stage; the destructor has no handler around these
\* calls, so a call that throws ends the destructor and the process.
unloadCb(robot_name) ==
  /\ alive /\ cur.pc = "idle" /\ nreq < MaxRequests
  /\ nreq' = nreq + 1
  /\ LET i == FindLoaded(robot_name)
         rp == [req |-> nreq + 1, op |-> "unload", name |-> robot_name,
                code |-> "PENDING", cfg |-> NULL, robot |-> 0,
                request |-> [robot_name |-> robot_name], response |-> NoResponse]
     IN  IF i = 0
         THEN /\ reply' = [rp EXCEPT !.code = "UNLOAD_FAILED"]
              /\ unload_log' = <<>>
              /\ deleted_params' = <<>>
              /\ UNCHANGED <<configs, loaded_robots, resources, alive>>
         ELSE LET c == loaded_robots[i].config
                  rel == ToRelease(c)
              IN  \E n \in 0..Len(rel) :
                    LET issued == IF n < Len(rel) THEN n + 1 ELSE n
                        done == {rel[k] : k \in 1..n}
                    IN  /\ unload_log' =
                             [k \in 1..issued |->
                                [stage |-> rel[k],
                                 id |-> configs[c].resource_id[rel[k]],
                                 ok |-> k <= n]]
                        /\ resources' =
                             [r \in 1..Len(resources) |->
                                IF \E s \in done : configs[c].resource_id[s] = r
                                THEN [resources[r] EXCEPT !.released = TRUE]
                                ELSE resources[r]]
                        /\ configs' = [configs EXCEPT ![c].loaded = setLoadedFalse(@, done)]
                        /\ loaded_robots' = RemoveAt(loaded_robots, i)
                        /\ deleted_params' = deleteParam(c, n = Len(rel))
                        /\ alive' = (n = Len(rel))
                        /\ reply' = [rp EXCEPT
                                       !.code = IF n = Len(rel) THEN "OK" ELSE "TERMINATED",
                                       !.cfg = c,
                                       !.robot = loaded_robots[i].req]
  /\ UNCHANGED <<local_configs, remote_configs, failed, cur, fwd_log, sync_sent,
                 find_name, find_res, find_calls, op_vars, sync_recv, desc_read, net>>

----------------------------------------------------------------------------
(* Environment *)

\* The process manager reports FAILED for a resource that is still tracked.
statusFailed(id) ==
  /\ alive
  /\ id \in 1..Len(resources)
  /\ ~resources[id].released
  /\ id \notin failed
  /\ Cardinality(failed) < MaxFailed
  /\ failed' = failed \cup {id}
  /\ UNCHANGED <<configs, local_configs, remote_configs, loaded_robots, resources,
                 cur, nreq, reply, unload_log, fwd_log, sync_sent, alive,
                 find_name, find_res, find_calls, op_vars, sync_recv, desc_read, net, deleted_params>>

----------------------------------------------------------------------------
(* Robot: the operations *)

PlanningGroupNames == {"", "main", "tool"}
RemoteResponses == {Response("remote", <<"r1">>), Response("remote", <<"r2">>)}
Poses == {"pose1", "pose2"}
OpArgs == {"a1"}

\* A planner whose failure leaves an earlier valid plan standing.
PlanValidAfter_Mutant(found, before) == found \/ before

\* is_plan_valid_ = static_cast<bool>(group->plan(last_plan))
PlanValidAfter(found, before) == found

Groups(rb) == {rb.planning_groups[k] : k \in 1..Len(rb.planning_groups)}

\* A lookup that takes any name for the name of a planning session.
PlanningGroupFound_Mutant(rb, planning_group_name) == TRUE

\* group_it != planning_groups_.end(): the Robot has a session of that name.
PlanningGroupFound(rb, planning_group_name) == planning_group_name \in Groups(rb)

\* Robot::planManipulationPath (both overloads) on the Robot at position i.
planManipulationPath(i, req, rp) ==
  LET rb == loaded_robots[i]
      c == rb.config
      planning_group_name ==
        IF req.planning_group = "" THEN configs[c].active_planning_group
        ELSE req.planning_group
  IN  /\ robot_calls' = <<[robot |-> rb.req, method |-> "planManipulationPath"]>>
      /\ IF rb.planning_groups = <<>>
         THEN /\ reply' = [rp EXCEPT !.code = "ROBOT_PLAN_FAIL"]
              /\ planner_calls' = <<>>
              /\ UNCHANGED <<configs, loaded_robots>>
         ELSE IF ~PlanningGroupFound(rb, planning_group_name)
         THEN /\ reply' = [rp EXCEPT !.code = "PLANNING_GROUP_NOT_FOUND"]
              /\ planner_calls' = <<>>
              /\ UNCHANGED <<configs, loaded_robots>>
         ELSE \E found \in BOOLEAN :
                /\ configs' = [configs EXCEPT
                                 ![c].active_planning_group = planning_group_name]
                /\ planner_calls' = <<[group |-> planning_group_name, call |-> "plan",
                                       plan |-> IF found THEN rp.req ELSE NULL,
                                       ok |-> found]>>
                /\ loaded_robots' =
                     [loaded_robots EXCEPT
                        ![i].is_plan_valid = PlanValidAfter(found, @),
                        ![i].last_plan = IF found THEN rp.req ELSE @,
                        ![i].last_plan_group = IF found THEN planning_group_name ELSE @]
                /\ reply' = [rp EXCEPT !.code = IF found THEN "OK" ELSE "ROBOT_PLAN_FAIL"]

\* Robot::executeManipulationPath: without a valid plan, or with an unknown
\* active group, it logs and returns.
executeManipulationPath(i, rp) ==
  LET rb == loaded_robots[i]
      planning_group_name == configs[rb.config].active_planning_group
  IN  /\ robot_calls' = <<[robot |-> rb.req, method |-> "executeManipulationPath"]>>
      /\ reply' = [rp EXCEPT !.code = "OK"]
      /\ IF rb.is_plan_valid /\ planning_group_name \in Groups(rb)
         THEN \E success \in BOOLEAN :
                planner_calls' = <<[group |-> planning_group_name, call |-> "execute",
                                    plan |-> rb.last_plan, ok |-> success]>>
         ELSE planner_calls' = <<>>
      /\ UNCHANGED <<configs, loaded_robots>>

\* Robot::getManipulationTarget: the current pose of the active group, a
\* default-constructed pose when the group is unknown.
getManipulationTarget(i, rp) ==
  LET rb == loaded_robots[i]
      planning_group_name == configs[rb.config].active_planning_group
  IN  /\ robot_calls' = <<[robot |-> rb.req, method |-> "getManipulationTarget"]>>
      /\ IF planning_group_name \in Groups(rb)
         THEN \E pose \in Poses :
                /\ planner_calls' = <<[group |-> planning_group_name,
                                       call |-> "getCurrentPose", plan |-> NULL,
                                       ok |-> TRUE]>>
                /\ reply' = [rp EXCEPT !.code = "OK",
                                       !.response = Response("pose", <<pose>>)]
         ELSE /\ planner_calls' = <<>>
              /\ reply' = [rp EXCEPT !.code = "OK",
                                     !.response = Response("pose", <<"pose_default">>)]
      /\ UNCHANGED <<configs, loaded_robots>>

\* Robot::goalNavigation and Robot::controlGripper: the goal or command is
\* sent out; neither reports its outcome to the caller.
sendCommand(method, i, rp) ==
  /\ robot_calls' = <<[robot |-> loaded_robots[i].req, method |-> method]>>
  /\ planner_calls' = <<>>
  /\ reply' = [rp EXCEPT !.code = "OK"]
  /\ UNCHANGED <<configs, loaded_robots>>

\* Robot::getVizInfo: built from the Robot's config.
getVizInfo(i, rp) ==
  LET rb == loaded_robots[i]
      cfg == configs[rb.config]
  IN  /\ robot_calls' = <<[robot |-> rb.req, method |-> "getVizInfo"]>>
      /\ planner_calls' = <<>>
      /\ reply' = [rp EXCEPT
                     !.code = "OK",
                     !.response =
                        Response("viz",
                          getAbsRobotNamespace(cfg)
                          \o (IF cfg.enabled["urdf"] THEN <<"urdf">> ELSE <<>>)
                          \o (IF cfg.enabled["manipulation"]
                              THEN <<"manipulation", cfg.active_planning_group>>
                              ELSE <<>>)
                          \o (IF cfg.enabled["navigation"] THEN <<"navigation">> ELSE <<>>)
                          \o (IF cfg.enabled["gripper"] THEN <<"gripper">> ELSE <<>>))]
      /\ UNCHANGED <<configs, loaded_robots>>

----------------------------------------------------------------------------
(* RobotManager: the operation endpoints *)

\* RobotManager::findLoadedRobot: position of the first loaded Robot with
\* the name, 0 when it throws NULL_PTR.
findLoadedRobot(robot_name) ==
  LET hits == {i \in 1..Len(loaded_robots) :
                 configs[loaded_robots[i].config].name = robot_name}
  IN  IF hits = {} THEN 0 ELSE CHOOSE i \in hits : \A j \in hits : i <= j

\* The reply under construction of an operation request.
OpReply(op, req, i) ==
  [req |-> nreq + 1, op |-> op, name |-> req.robot_name, code |-> "PENDING",
   cfg |-> IF i = 0 THEN NULL ELSE loaded_robots[i].config,
   robot |-> IF i = 0 THEN 0 ELSE loaded_robots[i].req,
   request |-> req, response |-> NoResponse]

\* findLoadedRobot threw: the endpoint forwards the error.
NotLoaded(rp) ==
  /\ reply' = [rp EXCEPT !.code = "NULL_PTR"]
  /\ robot_calls' = <<>>
  /\ planner_calls' = <<>>
  /\ client_calls' = <<>>
  /\ UNCHANGED <<configs, loaded_robots>>

\* A client that tries the call a second time.
clientCall_Mutant(call) == <<call, call>>

\* client.call(fwd): the service call is made once.
clientCall(call) == <<call>>

\* The else branch of an endpoint: the request is copied into a service
\* call to the manager of the Robot's namespace; the response of a call that
\* succeeded is copied out, a call that failed throws SERVICE_REQ_FAIL.
Forward(service, i, req, rp) ==
  \E out \in {[ok |-> FALSE, response |-> NoResponse]}
             \cup {[ok |-> TRUE, response |-> r] : r \in RemoteResponses} :
    /\ client_calls' =
         clientCall([to |-> configs[loaded_robots[i].config].temoto_namespace,
                     service |-> service, request |-> req,
                     ok |-> out.ok, response |-> out.response])
    /\ reply' = [rp EXCEPT !.code = IF out.ok THEN "OK" ELSE "SERVICE_REQ_FAIL",
                           !.response = out.response]
    /\ robot_calls' = <<>>
    /\ planner_calls' = <<>>
    /\ UNCHANGED <<configs, loaded_robots>>

\* What no operation endpoint touches.
OpFrame ==
  UNCHANGED <<local_configs, remote_configs, resources, failed, cur, unload_log,
              fwd_log, sync_sent, alive, find_name, find_res, find_calls,
              sync_recv, desc_read, net, deleted_params>>

\* The guard and the counter shared by the endpoints.
OpReceived == alive /\ cur.pc = "idle" /\ nreq < MaxRequests /\ nreq' = nreq + 1

planManipulationPathCb(req) ==
  /\ OpReceived
  /\ LET i == findLoadedRobot(req.robot_name)
         rp == OpReply("plan", req, i)
     IN  IF i = 0 THEN NotLoaded(rp)
         ELSE IF isLocal(loaded_robots[i].config)
         THEN planManipulationPath(i, req, rp) /\ client_calls' = <<>>
         ELSE Forward("plan", i, req, rp)
  /\ OpFrame

execManipulationPathCb(req) ==
  /\ OpReceived
  /\ LET i == findLoadedRobot(req.robot_name)
         rp == OpReply("execute", req, i)
     IN  IF i = 0 THEN NotLoaded(rp)
         ELSE IF isLocal(loaded_robots[i].config)
         THEN executeManipulationPath(i, rp) /\ client_calls' = <<>>
         ELSE Forward("execute", i, req, rp)
  /\ OpFrame

\* getVizInfoCb has no isLocal branch.
getVizInfoCb(req) ==
  /\ OpReceived
  /\ LET i == findLoadedRobot(req.robot_name)
         rp == OpReply("get_viz_info", req, i)
     IN  IF i = 0 THEN NotLoaded(rp)
         ELSE getVizInfo(i, rp) /\ client_calls' = <<>>
  /\ OpFrame

getManipulationTargetCb(req) ==
  /\ OpReceived
  /\ LET i == findLoadedRobot(req.robot_name)
         rp == OpReply("get_target", req, i)
     IN  IF i = 0 THEN NotLoaded(rp)
         ELSE IF isLocal(loaded_robots[i].config)
         THEN getManipulationTarget(i, rp) /\ client_calls' = <<>>
         ELSE Forward("get_target", i, req, rp)
  /\ OpFrame

goalNavigationCb(req) ==
  /\ OpReceived
  /\ LET i == findLoadedRobot(req.robot_name)
         rp == OpReply("navigate", req, i)
     IN  IF i = 0 THEN NotLoaded(rp)
         ELSE IF isLocal(loaded_robots[i].config)
         THEN sendCommand("goalNavigation", i, rp) /\ client_calls' = <<>>
         ELSE Forward("navigate", i, req, rp)
  /\ OpFrame

gripperControlPositionCb(req) ==
  /\ OpReceived
  /\ LET i == findLoadedRobot(req.robot_name)
         rp == OpReply("gripper_control", req, i)
     IN  IF i = 0 THEN NotLoaded(rp)
         ELSE IF isLocal(loaded_robots[i].config)
         THEN sendCommand("controlGripper", i, rp) /\ client_calls' = <<>>
         ELSE Forward("gripper_control", i, req, rp)
  /\ OpFrame

\* Position of the first config of the list with the name, 0 when none.
FindConfig(robot_name, cfgs) ==
  LET hits == {i \in 1..Len(cfgs) : configs[cfgs[i]].name = robot_name}
  IN  IF hits = {} THEN 0 ELSE CHOOSE i \in hits : \A j \in hits : i <= j

\* RobotManagerInterface::getRobotConfig, the caller's side of the get-config
\* service: an error when the call returned false, otherwise the parsed
\* config with the absolute namespace added to it.
getRobotConfig(rp) ==
  IF rp.code # "OK" THEN [kind |-> "error", code |-> "SERVICE_REQ_FAIL", node |-> <<>>]
  ELSE [kind |-> "node", code |-> "OK", node |-> rp.response.data]

\* getRobotConfigCb looks the name up in the config lists, not in the loaded
\* set, and returns true also when neither list has it.
getRobotConfigCb(req) ==
  /\ OpReceived
  /\ LET l == FindConfig(req.robot_name, local_configs)
         r == FindConfig(req.robot_name, remote_configs)
         c == IF l # 0 THEN local_configs[l]
              ELSE IF r # 0 THEN remote_configs[r] ELSE NULL
         rp == [OpReply("get_config", req, 0) EXCEPT !.cfg = c]
     IN  reply' = [rp EXCEPT
                     !.code = "OK",
                     !.response =
                        IF c = NULL THEN NoResponse
                        ELSE Response("config",
                               getAbsRobotNamespace(configs[c])
                               \o <<getYAMLConfig(configs[c]).name>>)]
  /\ robot_calls' = <<>>
  /\ planner_calls' = <<>>
  /\ client_calls' = <<>>
  /\ UNCHANGED <<configs, loaded_robots>>
  /\ OpFrame

----------------------------------------------------------------------------
(* Specification of the coordinator *)

\* Feature settings of a config: a driver is only configured for an
\* enabled feature.
FeatureSettings ==
  {fs \in [enabled : [Features -> BOOLEAN], driver_enabled : [DriverFeatures -> BOOLEAN]] :
     \A f \in DriverFeatures : fs.driver_enabled[f] => fs.enabled[f]}

UrdfOnly == [enabled |-> [f \in Features |-> f = "urdf"],
             driver_enabled |-> [f \in DriverFeatures |-> FALSE]]

NoFeature == [enabled |-> [f \in Features |-> FALSE],
              driver_enabled |-> [f \in DriverFeatures |-> FALSE]]

GroupLists(fs) == IF fs.enabled["manipulation"] THEN {<<"main">>} ELSE {<<>>}

\* The configs of a fleet: config 1 ("arm1") and config 2 ("base1") are the
\* coordinator's own, config 3 is one advertised by another coordinator.
Fleet(fs, g, r1, r3, n3) ==
  [c \in CfgIds |->
     IF c = 1 THEN MkConfig("arm1", LocalNs, r1, fs.enabled, fs.driver_enabled, g)
     ELSE IF c = 2 THEN MkConfig("base1", LocalNs, MaxRel, UrdfOnly.enabled,
                                 UrdfOnly.driver_enabled, <<>>)
     ELSE MkConfig(n3, RemoteNs, r3, UrdfOnly.enabled, UrdfOnly.driver_enabled, <<>>)]

\* Either one own robot with any feature settings, or a mixed fleet of own
\* and remote robots with any names and reliabilities.
InitFleet ==
  \/ /\ \E fs \in FeatureSettings : \E g \in GroupLists(fs) :
          configs = Fleet(fs, g, MaxRel, 0, "arm2")
     /\ local_configs = <<1>>
     /\ remote_configs = <<3>>
  \/ /\ \E fs \in {UrdfOnly, NoFeature}, r1 \in Rels, r3 \in Rels, n3 \in {"arm1", "arm2"} :
          configs = Fleet(fs, <<>>, r1, r3, n3)
     /\ local_configs \in {<<>>, <<1>>, <<1, 2>>}
     /\ remote_configs \in {<<>>, <<3>>}

Init ==
  /\ InitFleet
  /\ loaded_robots = <<>>
  /\ resources = <<>>
  /\ failed = {}
  /\ cur = Idle
  /\ nreq = 0
  /\ reply = NoReply
  /\ unload_log = <<>>
  /\ fwd_log = <<>>
  /\ sync_sent = <<>>
  /\ alive = TRUE
  /\ find_name = ""
  /\ find_res = NULL
  /\ find_calls = 0
  /\ robot_calls = <<>>
  /\ planner_calls = <<>>
  /\ client_calls = <<>>
  /\ sync_recv = NoSync
  /\ desc_read = NoDescription
  /\ deleted_params = <<>>
  /\ net = NoNet

Next ==
  \/ \E robot_name \in RequestNames : loadCb(robot_name)
  \/ rosExecute
  \/ waitFound
  \/ waitInterrupted
  \/ waitSleep
  \/ addPlanningGroups
  \/ setManipulationLoaded
  \/ \E robot_name \in RequestNames : unloadCb(robot_name)
  \/ \E id \in 1..Len(resources) : statusFailed(id)

Spec == Init /\ [][Next]_vars

----------------------------------------------------------------------------
(* Specification of findRobot on its own *)

FindNames == {"arm1", "arm2"}
FindNamespaces == {RemoteNs}

InitFind ==
  /\ \E n \in 0..MaxFind :
       /\ configs \in [1..n ->
            {MkConfig(nm, ns, r, UrdfOnly.enabled, UrdfOnly.driver_enabled, <<>>) :
               nm \in FindNames, ns \in FindNamespaces, r \in 0..FindRel}]
       /\ remote_configs = [i \in 1..n |-> i]
  /\ local_configs = <<>>
  /\ loaded_robots = <<>>
  /\ resources = <<>>
  /\ failed = {}
  /\ cur = Idle
  /\ nreq = 0
  /\ reply = NoReply
  /\ unload_log = <<>>
  /\ fwd_log = <<>>
  /\ sync_sent = <<>>
  /\ alive = TRUE
  /\ find_name = ""
  /\ find_res = NULL
  /\ find_calls = 0
  /\ robot_calls = <<>>
  /\ planner_calls = <<>>
  /\ client_calls = <<>>
  /\ sync_recv = NoSync
  /\ desc_read = NoDescription
  /\ deleted_params = <<>>
  /\ net = NoNet

\* A call findRobot(robot_name, remote_configs_).
findRobotCall(robot_name) ==
  /\ find_calls = 0
  /\ find_calls' = 1
  /\ find_name' = robot_name
  /\ find_res' \in findRobot(robot_name, remote_configs)
  /\ UNCHANGED <<configs, local_configs, remote_configs, loaded_robots, resources,
                 failed, cur, nreq, reply, unload_log, fwd_log, sync_sent, alive, op_vars, sync_recv, desc_read, net, deleted_params>>

NextFind == \E robot_name \in FindNames \cup {"", "arm3"} : findRobotCall(robot_name)

SpecFind == InitFind /\ [][NextFind]_vars

----------------------------------------------------------------------------
(* RobotManager::syncCb *)

OtherNs == "ns_other"
SenderNamespaces == {RemoteNs, OtherNs}
SyncNames == {"arm1", "arm2"}
SyncRels == {0, 1}

\* The entries of the "Robots" sequence of a config document: a robot
\* description, an entry that is not a map, or a map from which no
\* RobotConfig can be built.
YamlEntries ==
  [kind : {"robot"}, name : SyncNames, reliability : SyncRels]
  \cup [kind : {"scalar", "invalid"}, name : {""}, reliability : {0}]

\* The payloads: a document with a "Robots" sequence, or one without.
Payloads ==
  {[ok |-> TRUE, robots |-> d] : d \in UNION {[1..n -> YamlEntries] : n \in 0..MaxDoc}}
  \cup {[ok |-> FALSE, robots |-> <<>>]}

SyncMessages ==
  {[action |-> "ADVERTISE_CONFIG", temoto_namespace |-> ns, ok |-> pl.ok,
    robots |-> pl.robots] : ns \in SenderNamespaces, pl \in Payloads}
  \cup {[action |-> "REQUEST_CONFIG", temoto_namespace |-> ns, ok |-> TRUE,
         robots |-> <<>>] : ns \in SenderNamespaces}

\* RobotConfig operator==: same name and same namespace.
SameConfig(a, b) == a.name = b.name /\ a.temoto_namespace = b.temoto_namespace

\* RobotConfig(node, manager): the config built from a robot description;
\* it is in the constructing manager's namespace until stamped otherwise.
RobotConfigFromYaml(e) ==
  MkConfig(e.name, LocalNs, e.reliability, UrdfOnly.enabled,
           UrdfOnly.driver_enabled, <<>>)

RECURSIVE parseEntries_Mutant(_, _)
\* A parser that gives up at the first entry it cannot use.
parseEntries_Mutant(robots, parsed) ==
  IF robots = <<>> THEN parsed
  ELSE LET e == Head(robots)
           config == RobotConfigFromYaml(e)
       IN  IF e.kind # "robot" THEN parsed
           ELSE IF \E k \in 1..Len(parsed) : SameConfig(parsed[k], config)
           THEN parseEntries_Mutant(Tail(robots), parsed)
           ELSE parseEntries_Mutant(Tail(robots), Append(parsed, config))

RECURSIVE parseEntries(_, _)
\* The loop of parseRobotConfigs(yaml): an entry that is not a map or does
\* not parse is skipped, a config equal to one parsed before is ignored.
parseEntries(robots, parsed) ==
  IF robots = <<>> THEN parsed
  ELSE LET e == Head(robots)
           config == RobotConfigFromYaml(e)
       IN  IF e.kind # "robot" THEN parseEntries(Tail(robots), parsed)
           ELSE IF \E k \in 1..Len(parsed) : SameConfig(parsed[k], config)
           THEN parseEntries(Tail(robots), parsed)
           ELSE parseEntries(Tail(robots), Append(parsed, config))

\* parseRobotConfigs(yaml_config)
parseRobotConfigs(msg) == IF msg.ok THEN parseEntries(msg.robots, <<>>) ELSE <<>>

\* A sync handler that leaves the parsed configs in its own namespace.
setTemotoNamespace_Mutant(cfg, ns) == cfg

\* config->setTemotoNamespace(msg.temoto_namespace)
setTemotoNamespace(cfg, ns) == [cfg EXCEPT !.temoto_namespace = ns]

\* Whether a loaded Robot holds the config object.
HeldByRobot(c) == \E i \in 1..Len(loaded_robots) : loaded_robots[i].config = c

\* A merge that adds every received config at the end of the cache.
MergeConfig_Mutant(st, config) ==
  [heap |-> Append(st.heap, config),
   remote |-> Append(st.remote, Len(st.heap) + 1)]

\* One round of the merge loop of syncCb: the first cache entry equal to the
\* config is made to point to the new object, otherwise the new object is
\* appended.  The object the entry pointed to before is destroyed unless a
\* Robot holds it; the new object then takes its place in the heap.
MergeConfig(st, config) ==
  LET hits == {i \in 1..Len(st.remote) : SameConfig(st.heap[st.remote[i]], config)}
  IN  IF hits = {}
      THEN [heap |-> Append(st.heap, config),
            remote |-> Append(st.remote, Len(st.heap) + 1)]
      ELSE LET it == CHOOSE i \in hits : \A j \in hits : i <= j
               old == st.remote[it]
           IN  IF HeldByRobot(old)
               THEN [heap |-> Append(st.heap, config),
                     remote |-> [st.remote EXCEPT ![it] = Len(st.heap) + 1]]
               ELSE [heap |-> [st.heap EXCEPT ![old] = config],
                     remote |-> st.remote]

RECURSIVE MergeAll(_, _)
MergeAll(st, received) ==
  IF received = <<>> THEN st
  ELSE MergeAll(MergeConfig(st, Head(received)), Tail(received))

\* The "Robots" sequence built from the configs cfgs, which live in heap.
Document(heap, cfgs) == [i \in 1..Len(cfgs) |-> getYAMLConfig(heap[cfgs[i]])]

\* An advertiseConfigs that publishes a document even when it is empty.
advertiseConfigs_Mutant(heap, cfgs) == Append(sync_sent, Document(heap, cfgs))

\* advertiseConfigs(local_configs_): nothing is sent when there is no config.
advertiseConfigs(heap, cfgs) ==
  IF cfgs = <<>> THEN sync_sent ELSE Append(sync_sent, Document(heap, cfgs))

syncCb(msg) ==
  /\ alive /\ cur.pc = "idle" /\ sync_recv.n < MaxSync
  /\ sync_recv' = [n |-> sync_recv.n + 1, action |-> msg.action,
                   temoto_namespace |-> msg.temoto_namespace, ok |-> msg.ok,
                   robots |-> msg.robots]
  /\ IF msg.action = "REQUEST_CONFIG"
     THEN /\ sync_sent' = advertiseConfigs(configs, local_configs)
          /\ UNCHANGED <<configs, remote_configs>>
     ELSE LET parsed == parseRobotConfigs(msg)
              received == [k \in 1..Len(parsed) |->
                             setTemotoNamespace(parsed[k], msg.temoto_namespace)]
              st == MergeAll([heap |-> configs, remote |-> remote_configs], received)
          IN  /\ configs' = st.heap
              /\ remote_configs' = st.remote
              /\ UNCHANGED sync_sent
  /\ UNCHANGED <<local_configs, loaded_robots, resources, failed, cur, nreq, reply,
                 unload_log, fwd_log, alive, find_name, find_res, find_calls, op_vars,
                 desc_read, net, deleted_params>>

----------------------------------------------------------------------------
(* RobotManager::readRobotDescription *)

\* The entries a robot description file holds here: two descriptions of
\* "arm1" that differ in content, one of "arm2", and an entry that is not a
\* map.
DescriptionEntries ==
  {[kind |-> "robot", name |-> "arm1", reliability |-> 1],
   [kind |-> "robot", name |-> "arm1", reliability |-> 0],
   [kind |-> "robot", name |-> "arm2", reliability |-> 1],
   [kind |-> "scalar", name |-> "", reliability |-> 0]}

EntryLists == UNION {[1..n -> DescriptionEntries] : n \in 0..MaxEntries}

\* The description files: without a "Robots" key, with a "Robots" key that
\* is not a sequence, or with a sequence of entries.
Descriptions ==
  {[has_robots |-> FALSE, ok |-> FALSE, robots |-> <<>>],
   [has_robots |-> TRUE, ok |-> FALSE, robots |-> <<>>]}
  \cup {[has_robots |-> TRUE, ok |-> TRUE, robots |-> d] : d \in EntryLists}

\* config.getName() == config_compare->getName()
SameName(a, b) == a.name = b.name

RECURSIVE parseEntriesInto(_, _)
\* The loop of parseRobotConfigs(yaml, configs): an entry that is not a map
\* or does not parse is skipped; a config is added unless one already in the
\* list is equal to it or has its name.
parseEntriesInto(robots, st) ==
  IF robots = <<>> THEN st
  ELSE LET e == Head(robots)
           config == RobotConfigFromYaml(e)
           compare == \E k \in 1..Len(st.list) : SameName(config, st.heap[st.list[k]])
           count == Cardinality({k \in 1..Len(st.list) :
                                   SameConfig(st.heap[st.list[k]], config)})
       IN  IF e.kind # "robot" THEN parseEntriesInto(Tail(robots), st)
           ELSE IF count = 0 /\ ~compare
           THEN parseEntriesInto(Tail(robots),
                                 [heap |-> Append(st.heap, config),
                                  list |-> Append(st.list, Len(st.heap) + 1)])
           ELSE parseEntriesInto(Tail(robots), st)

\* A parser that compares the entries of a file with each other only and
\* adds the outcome to the configs it was given.
parseRobotConfigsInto_Mutant(doc, st) ==
  IF doc.ok
  THEN LET fresh == parseEntriesInto(doc.robots, [heap |-> st.heap, list |-> <<>>])
       IN  [heap |-> fresh.heap, list |-> st.list \o fresh.list]
  ELSE st

\* parseRobotConfigs(yaml_config, configs)
parseRobotConfigsInto(doc, st) ==
  IF doc.ok THEN parseEntriesInto(doc.robots, st) ELSE st

\* readRobotDescription(path): the constructor reads the files one after the
\* other, before the node handles any message.
readRobotDescription(doc) ==
  /\ alive /\ cur.pc = "idle" /\ sync_recv.n = 0 /\ desc_read.n < MaxFiles
  /\ desc_read' = [n |-> desc_read.n + 1, doc |-> doc]
  /\ IF doc.has_robots
     THEN LET st == parseRobotConfigsInto(doc, [heap |-> configs,
                                                list |-> local_configs])
          IN  /\ configs' = st.heap
              /\ local_configs' = st.list
              /\ sync_sent' = advertiseConfigs(st.heap, st.list)
     ELSE UNCHANGED <<configs, local_configs, sync_sent>>
  /\ UNCHANGED <<remote_configs, loaded_robots, resources, failed, cur, nreq, reply,
                 unload_log, fwd_log, alive, find_name, find_res, find_calls,
                 op_vars, sync_recv, net, deleted_params>>

----------------------------------------------------------------------------

(* Specification of the coordinator with robots already loaded *)

ManipulationWithDriver ==
  [enabled |-> [f \in Features |-> f \in {"urdf", "manipulation"}],
   driver_enabled |-> [f \in DriverFeatures |-> f = "manipulation"]]

\* The stages a first Robot::load of the config launches, in order.
Launched(cfg) ==
  LET runs(s) == StageRuns(cfg, s)
  IN  IF cfg.temoto_namespace = LocalNs THEN SelectSeq(StageOrder, runs) ELSE <<>>

RECURSIVE LoadAll(_, _)
\* The configs, catalog and loaded set after Load requests for the configs
\* of `order`, one after the other, in which every launch and every wait
\* succeeded.  These earlier requests are numbered below zero.
LoadAll(st, order) ==
  IF order = <<>> THEN st
  ELSE LET c == Head(order)
           cfg == st.configs[c]
           done == Launched(cfg)
           first == Len(st.resources)
           at(s) == CHOOSE k \in 1..Len(done) : done[k] = s
           ran == {done[k] : k \in 1..Len(done)}
           load_id == 0 - Len(order)
       IN  LoadAll(
             [configs |->
                [st.configs EXCEPT
                   ![c].resource_id = [s \in Stages |-> IF s \in ran THEN first + at(s)
                                                        ELSE @[s]],
                   ![c].loaded = [s \in Stages |-> IF s \in ran /\ WaitsForSignal(s)
                                                   THEN TRUE ELSE @[s]]],
              resources |->
                st.resources \o
                [k \in 1..Len(done) |->
                   [stage |-> done[k], cfg |-> c, req |-> load_id,
                    ready |-> WaitsForSignal(done[k]), released |-> FALSE]],
              loaded_robots |->
                Append(st.loaded_robots,
                  [config |-> c,
                   planning_groups |-> IF "manipulation" \in ran
                                       THEN cfg.planning_groups ELSE <<>>,
                   is_plan_valid |-> FALSE, last_plan |-> NULL, last_plan_group |-> "", req |-> load_id])],
             Tail(order))

\* Every sequence of up to MaxLoaded earlier Load requests; loadCb does not
\* look at the loaded set, so a config may have been loaded more than once.
LoadOrders == UNION {[1..n -> CfgIds] : n \in 0..MaxLoaded}

InitOps ==
  /\ \E fs \in {UrdfOnly, ManipulationWithDriver}, order \in LoadOrders :
     \E g \in GroupLists(fs) :
     \E apg \in {""} \cup {g[k] : k \in 1..Len(g)} :
       LET fleet == [Fleet(fs, g, MaxRel, 0, "arm2") EXCEPT
                       ![1].active_planning_group = apg]
           st == LoadAll([configs |-> fleet, resources |-> <<>>,
                          loaded_robots |-> <<>>], order)
       IN  /\ configs = st.configs
           /\ resources = st.resources
           /\ loaded_robots = st.loaded_robots
  /\ local_configs = <<1, 2>>
  /\ remote_configs = <<3>>
  /\ failed = {}
  /\ cur = Idle
  /\ nreq = 0
  /\ reply = NoReply
  /\ unload_log = <<>>
  /\ fwd_log = <<>>
  /\ sync_sent = <<>>
  /\ alive = TRUE
  /\ find_name = ""
  /\ find_res = NULL
  /\ find_calls = 0
  /\ robot_calls = <<>>
  /\ planner_calls = <<>>
  /\ client_calls = <<>>
  /\ sync_recv = NoSync
  /\ desc_read = NoDescription
  /\ deleted_params = <<>>
  /\ net = NoNet

PlanRequests ==
  [robot_name : RequestNames, planning_group : PlanningGroupNames,
   use_named_target : BOOLEAN]

OpRequests == [robot_name : RequestNames, arg : OpArgs]

\* The requests that work on the loaded set.
NextOps ==
  \/ \E robot_name \in RequestNames : unloadCb(robot_name)
  \/ \E req \in PlanRequests : planManipulationPathCb(req)
  \/ \E req \in OpRequests : execManipulationPathCb(req)
  \/ \E req \in OpRequests : getVizInfoCb(req)
  \/ \E req \in OpRequests : getManipulationTargetCb(req)
  \/ \E req \in OpRequests : goalNavigationCb(req)
  \/ \E req \in OpRequests : gripperControlPositionCb(req)
  \/ \E req \in OpRequests : getRobotConfigCb(req)

SpecOps == InitOps /\ [][NextOps]_vars

----------------------------------------------------------------------------
(* Specification of the config synchronisation *)

\* The coordinator with its own configs and a remote cache that is empty or
\* holds one config received earlier.
\* The earlier Load requests: none, or one for the cached remote robot.
SyncLoadOrders(cache) == {<<>>} \cup {<<cache[i]>> : i \in 1..Len(cache)}

InitSync ==
  /\ configs = Fleet(UrdfOnly, <<>>, MaxRel, 0, "arm2")
  /\ local_configs \in {<<>>, <<1, 2>>}
  /\ remote_configs \in {<<>>, <<3>>}
  /\ \E order \in SyncLoadOrders(remote_configs) :
       loaded_robots = LoadAll([configs |-> configs, resources |-> <<>>,
                                loaded_robots |-> <<>>], order).loaded_robots
  /\ resources = <<>>
  /\ failed = {}
  /\ cur = Idle
  /\ nreq = 0
  /\ reply = NoReply
  /\ unload_log = <<>>
  /\ fwd_log = <<>>
  /\ sync_sent = <<>>
  /\ alive = TRUE
  /\ find_name = ""
  /\ find_res = NULL
  /\ find_calls = 0
  /\ robot_calls = <<>>
  /\ planner_calls = <<>>
  /\ client_calls = <<>>
  /\ sync_recv = NoSync
  /\ desc_read = NoDescription
  /\ deleted_params = <<>>
  /\ net = NoNet

NextSync == \E msg \in SyncMessages : syncCb(msg)

SpecSync == InitSync /\ [][NextSync]_vars

----------------------------------------------------------------------------
(* Specification of the coordinator from its construction on *)

\* The documents another coordinator advertises here: an empty one, one
\* robot, a robot after an entry that is not a map, two robots around an
\* entry that does not parse, and a robot described twice.
AdvertisedDocuments ==
  LET arm1 == [kind |-> "robot", name |-> "arm1", reliability |-> 1]
      again == [kind |-> "robot", name |-> "arm1", reliability |-> 0]
      arm2 == [kind |-> "robot", name |-> "arm2", reliability |-> 1]
      scalar == [kind |-> "scalar", name |-> "", reliability |-> 0]
      invalid == [kind |-> "invalid", name |-> "", reliability |-> 0]
  IN  {<<>>, <<arm1>>, <<scalar, arm1>>, <<arm1, invalid, arm2>>,
       <<arm1, again, arm2>>}

\* The messages another coordinator sends: advertisements and config requests.
StartMessages ==
  {[action |-> "ADVERTISE_CONFIG", temoto_namespace |-> RemoteNs, ok |-> TRUE,
    robots |-> d] : d \in AdvertisedDocuments}
  \cup {[action |-> "REQUEST_CONFIG", temoto_namespace |-> RemoteNs, ok |-> TRUE,
         robots |-> <<>>]}

\* The coordinator when its constructor starts to look for description
\* files: no config is known.
InitStart ==
  /\ configs = <<>>
  /\ local_configs = <<>>
  /\ remote_configs = <<>>
  /\ loaded_robots = <<>>
  /\ resources = <<>>
  /\ failed = {}
  /\ cur = Idle
  /\ nreq = 0
  /\ reply = NoReply
  /\ unload_log = <<>>
  /\ fwd_log = <<>>
  /\ sync_sent = <<>>
  /\ alive = TRUE
  /\ find_name = ""
  /\ find_res = NULL
  /\ find_calls = 0
  /\ robot_calls = <<>>
  /\ planner_calls = <<>>
  /\ client_calls = <<>>
  /\ sync_recv = NoSync
  /\ desc_read = NoDescription
  /\ deleted_params = <<>>
  /\ net = NoNet

NextStart ==
  \/ \E doc \in Descriptions : readRobotDescription(doc)
  \/ \E msg \in StartMessages : syncCb(msg)

SpecStart == InitStart /\ [][NextStart]_vars

----------------------------------------------------------------------------

(* A system of several coordinators *)

\* The coordinators of the system and their namespaces.
Coordinators == {1, 2}
Namespace(k) == <<"ns", k>>

\* The description files a coordinator finds: none, one file, or two files
\* of which the second describes "arm1" again and adds "arm2".
NodeFiles ==
  LET arm1 == [kind |-> "robot", name |-> "arm1", reliability |-> 1]
      again == [kind |-> "robot", name |-> "arm1", reliability |-> 0]
      arm2 == [kind |-> "robot", name |-> "arm2", reliability |-> 1]
      file(d) == [has_robots |-> TRUE, ok |-> TRUE, robots |-> d]
  IN  {<<>>, <<file(<<arm1>>)>>, <<file(<<arm1>>), file(<<again, arm2>>)>>}

\* A coordinator that has not been started: pc is its position ("off",
\* "constructing", "spinning"), files the description files it has still to
\* read, inbox the sync messages that wait for its callback queue.
NodeOff(files) ==
  [pc |-> "off", files |-> files, configs |-> <<>>, local_configs |-> <<>>,
   remote_configs |-> <<>>, inbox |-> <<>>]

\* The sync topic: a message reaches every other coordinator that has
\* subscribed, i.e. whose constructor has begun; the others miss it.
Broadcast(nodes, k, msg) ==
  [h \in DOMAIN nodes |->
     IF h # k /\ nodes[h].pc # "off"
     THEN [nodes[h] EXCEPT !.inbox = Append(@, msg)]
     ELSE nodes[h]]

\* The ADVERTISE_CONFIG message of coordinator k for the configs cfgs: the
\* dumped document read back by the receiver.
AdvertiseMessage(k, heap, cfgs) ==
  [action |-> "ADVERTISE_CONFIG", temoto_namespace |-> Namespace(k), ok |-> TRUE,
   robots |-> [i \in 1..Len(cfgs) |->
                 [kind |-> "robot", name |-> Document(heap, cfgs)[i].name,
                  reliability |-> Document(heap, cfgs)[i].reliability]]]

\* A coordinator that answers with a document even when it has no config.
NodeAdvertise_Mutant(nodes, k) ==
  Broadcast(nodes, k, AdvertiseMessage(k, nodes[k].configs, nodes[k].local_configs))

\* advertiseConfigs at coordinator k: nothing is sent without a config.
NodeAdvertise(nodes, k) ==
  IF nodes[k].local_configs = <<>> THEN nodes
  ELSE Broadcast(nodes, k,
                 AdvertiseMessage(k, nodes[k].configs, nodes[k].local_configs))

\* A constructor that does not ask the other coordinators for their configs.
requestRemoteConfigs_Mutant(nodes, k) == nodes

\* config_syncer_.requestRemoteConfigs() at coordinator k
requestRemoteConfigs(nodes, k) ==
  Broadcast(nodes, k,
            [action |-> "REQUEST_CONFIG", temoto_namespace |-> Namespace(k),
             ok |-> TRUE, robots |-> <<>>])

NetFrame ==
  UNCHANGED <<configs, local_configs, remote_configs, loaded_robots, resources,
              failed, cur, nreq, reply, unload_log, fwd_log, sync_sent, alive,
              find_name, find_res, find_calls, op_vars, sync_recv, desc_read,
              deleted_params>>

\* The constructor up to requestRemoteConfigs(): the node subscribes to the
\* sync topic and asks the others for their configs.
nodeStart(k) ==
  /\ net[k].pc = "off"
  /\ net' = requestRemoteConfigs([net EXCEPT ![k].pc = "constructing"], k)
  /\ NetFrame

\* readRobotDescription at coordinator k for its next description file; the
\* configs a coordinator builds are in its own namespace.
nodeRead(k) ==
  /\ net[k].pc = "constructing" /\ net[k].files # <<>>
  /\ LET doc == Head(net[k].files)
         st == parseRobotConfigsInto(doc, [heap |-> net[k].configs,
                                           list |-> net[k].local_configs])
         read == [net EXCEPT ![k].files = Tail(@),
                             ![k].configs =
                               [c \in 1..Len(st.heap) |->
                                  IF \E i \in 1..Len(st.list) : st.list[i] = c
                                  THEN setTemotoNamespace(st.heap[c], Namespace(k))
                                  ELSE st.heap[c]],
                             ![k].local_configs = st.list]
     IN  net' = IF doc.has_robots THEN NodeAdvertise(read, k)
                ELSE [net EXCEPT ![k].files = Tail(@)]
  /\ NetFrame

\* The constructor returns and the node starts to handle its callbacks.
nodeSpin(k) ==
  /\ net[k].pc = "constructing" /\ net[k].files = <<>>
  /\ net' = [net EXCEPT ![k].pc = "spinning"]
  /\ NetFrame

\* syncCb at coordinator k for the oldest message of its queue.
nodeSyncCb(k) ==
  /\ net[k].pc = "spinning" /\ net[k].inbox # <<>>
  /\ LET msg == Head(net[k].inbox)
         taken == [net EXCEPT ![k].inbox = Tail(@)]
         parsed == parseRobotConfigs(msg)
         received == [i \in 1..Len(parsed) |->
                        setTemotoNamespace(parsed[i], msg.temoto_namespace)]
         st == MergeAll([heap |-> net[k].configs, remote |-> net[k].remote_configs],
                        received)
     IN  net' = IF msg.action = "REQUEST_CONFIG" THEN NodeAdvertise(taken, k)
                ELSE [taken EXCEPT ![k].configs = st.heap,
                                   ![k].remote_configs = st.remote]
  /\ NetFrame

InitNet ==
  /\ net \in {[k \in Coordinators |-> NodeOff(f[k])] : f \in [Coordinators -> NodeFiles]}
  /\ configs = <<>>
  /\ local_configs = <<>>
  /\ remote_configs = <<>>
  /\ loaded_robots = <<>>
  /\ resources = <<>>
  /\ failed = {}
  /\ cur = Idle
  /\ nreq = 0
  /\ reply = NoReply
  /\ unload_log = <<>>
  /\ fwd_log = <<>>
  /\ sync_sent = <<>>
  /\ alive = TRUE
  /\ find_name = ""
  /\ find_res = NULL
  /\ find_calls = 0
  /\ robot_calls = <<>>
  /\ planner_calls = <<>>
  /\ client_calls = <<>>
  /\ sync_recv = NoSync
  /\ desc_read = NoDescription
  /\ deleted_params = <<>>

NextNet ==
  \E k \in Coordinators :
    \/ nodeStart(k)
    \/ nodeRead(k)
    \/ nodeSpin(k)
    \/ nodeSyncCb(k)

SpecNet == InitNet /\ [][NextNet]_vars

\* Every coordinator is started, its constructor runs to its end, and its
\* callback queue is served.
NetFairness ==
  \A k \in Coordinators :
    /\ WF_vars(nodeStart(k))
    /\ WF_vars(nodeRead(k))
    /\ WF_vars(nodeSpin(k))
    /\ WF_vars(nodeSyncCb(k))

SpecNetFair == SpecNet /\ NetFairness

----------------------------------------------------------------------------

(* Specification of the planning requests on a robot with two groups *)

\* The planning groups of the arm's config.
PlanGroups == <<"main", "tool">>

\* The Load requests before the first planning request: the arm once, the
\* arm twice, or the remote robot and the arm.
PlanLoadOrders == {<<1>>, <<1, 1>>, <<3, 1>>}

\* Planning requests for the arm or the remote robot, with no group name,
\* the name of one of the two groups, or a name that is no group of the arm.
PlanGroupRequests ==
  [robot_name : {"arm1", "arm2"}, planning_group : PlanningGroupNames \cup {"other"},
   use_named_target : BOOLEAN]

InitPlan ==
  /\ \E order \in PlanLoadOrders, apg \in {"", "main", "tool"} :
       LET fleet == [Fleet(ManipulationWithDriver, PlanGroups, MaxRel, 0, "arm2") EXCEPT
                       ![1].active_planning_group = apg]
           st == LoadAll([configs |-> fleet, resources |-> <<>>,
                          loaded_robots |-> <<>>], order)
       IN  /\ configs = st.configs
           /\ resources = st.resources
           /\ loaded_robots = st.loaded_robots
  /\ local_configs = <<1, 2>>
  /\ remote_configs = <<3>>
  /\ failed = {}
  /\ cur = Idle
  /\ nreq = 0
  /\ reply = NoReply
  /\ unload_log = <<>>
  /\ fwd_log = <<>>
  /\ sync_sent = <<>>
  /\ alive = TRUE
  /\ find_name = ""
  /\ find_res = NULL
  /\ find_calls = 0
  /\ robot_calls = <<>>
  /\ planner_calls = <<>>
  /\ client_calls = <<>>
  /\ sync_recv = NoSync
  /\ desc_read = NoDescription
  /\ deleted_params = <<>>
  /\ net = NoNet

NextPlan ==
  \/ \E req \in PlanGroupRequests : planManipulationPathCb(req)
  \/ \E req \in OpRequests : execManipulationPathCb(req)
  \/ \E robot_name \in {"arm1"} : unloadCb(robot_name)

SpecPlan == InitPlan /\ [][NextPlan]_vars

----------------------------------------------------------------------------

(* Properties of the load sequence *)

ResourceIds == 1..Len(resources)

\* The resource a load in its readiness wait is waiting on.
WaitedId == configs[cur.cfg].resource_id[StageOrder[cur.stage]]

\* A Load request was received in this step.
LoadReceived == nreq' = nreq + 1 /\ reply'.op = "load"

\* An Unload request was received in this step.
UnloadReceived == nreq' = nreq + 1 /\ reply'.op = "unload"

\* C1: for manipulation, navigation and gripper with a driver enabled, the
\* controller's launch request is issued only after the driver's launch
\* request returned and the driver's readiness signal was observed.
C1_ControllerAfterDriverReady ==
  \A r \in ResourceIds :
    LET s == resources[r].stage
        c == resources[r].cfg
    IN  (s \in DriverFeatures /\ configs[c].driver_enabled[s]) =>
          \E d \in 1..(r - 1) :
            /\ resources[d].cfg = c
            /\ resources[d].stage = DriverStage(s)
            /\ resources[d].ready

\* C2: a completed load of an own robot with manipulation enabled, no
\* driver configured and planning groups <<"main">> issued no driver launch,
\* issued the manipulation controller launch, opened exactly the planning
\* session "main" and marked the manipulation feature loaded.
C2_ManipulationWithoutDriver ==
  (/\ reply.op = "load" /\ reply.code = "OK" /\ reply.cfg # NULL
   /\ isLocal(reply.cfg)
   /\ configs[reply.cfg].enabled["manipulation"]
   /\ ~configs[reply.cfg].driver_enabled["manipulation"]
   /\ configs[reply.cfg].planning_groups = <<"main">>)
  =>
  (/\ ~\E r \in ResourceIds : /\ resources[r].req = reply.req
                              /\ resources[r].stage = "manipulation_driver"
   /\ \E r \in ResourceIds : /\ resources[r].req = reply.req
                             /\ resources[r].stage = "manipulation"
   /\ \E i \in 1..Len(loaded_robots) : /\ loaded_robots[i].req = reply.req
                                       /\ loaded_robots[i].planning_groups = <<"main">>
   /\ configs[reply.cfg].loaded["manipulation"])

\* C3: a Load that resolves to an own config with all four features
\* disabled fails with a configuration error, issues no launch request and
\* adds no Robot to the loaded set.
C3_NoFeaturesRejected ==
  [][(/\ LoadReceived
      /\ reply'.cfg # NULL
      /\ configs[reply'.cfg].temoto_namespace = LocalNs
      /\ \A f \in Features : ~configs[reply'.cfg].enabled[f])
     =>
     (/\ reply'.code = "ROBOT_CONFIG_FAIL"
      /\ cur'.pc = "idle"
      /\ resources' = resources
      /\ fwd_log' = fwd_log
      /\ loaded_robots' = loaded_robots)]_vars

C3_Witness ==
  /\ reply.op = "load" /\ reply.code = "ROBOT_CONFIG_FAIL"
  /\ \A f \in Features : ~configs[reply.cfg].enabled[f]
  /\ resources = <<>> /\ loaded_robots = <<>>

\* C4: in every readiness wait, once the waited resource has FAILED status a
\* polling iteration never leaves the load waiting: it either finds the
\* signal or ends the load with an error.
C4_FailedWaitEnds ==
  [][(/\ cur.pc = "wait"
      /\ WaitedId \in failed
      /\ cur' # cur)
     => cur'.pc # "wait"]_vars

----------------------------------------------------------------------------
(* Properties of the unload *)

\* C5: an Unload of an own Robot issues a release request for every stage
\* that was marked loaded, also when an earlier release request failed.
C5_AllLoadedReleased ==
  [][(/\ UnloadReceived
      /\ reply'.cfg # NULL
      /\ configs[reply'.cfg].temoto_namespace = LocalNs)
     =>
     \A s \in Stages :
        configs[reply'.cfg].loaded[s] =>
          \E k \in 1..Len(unload_log') : unload_log'[k].stage = s]_vars

\* C6: after an own Robot was unloaded, every resource launched by the load
\* that created it has been released.
C6_LaunchedAllReleased ==
  (/\ reply.op = "unload" /\ reply.code = "OK" /\ reply.cfg # NULL
   /\ configs[reply.cfg].temoto_namespace = LocalNs)
  =>
  \A r \in ResourceIds : resources[r].req = reply.robot => resources[r].released

\* C7: during an unload, for manipulation, navigation and gripper, the
\* release request for the controller is issued before the one for the
\* driver: a driver release is never issued ahead of the release of a
\* controller that was marked loaded.
C7_ControllerReleasedFirst ==
  [][UnloadReceived =>
     \A f \in DriverFeatures : \A j \in 1..Len(unload_log') :
        unload_log'[j].stage = DriverStage(f) =>
          /\ \A i \in 1..Len(unload_log') : unload_log'[i].stage = f => i < j
          /\ configs[reply'.cfg].loaded[f] =>
               \E i \in 1..(j - 1) : unload_log'[i].stage = f]_vars

C7_Witness ==
  /\ reply.op = "unload"
  /\ \E i, j \in 1..Len(unload_log) :
       /\ i < j
       /\ unload_log[i].stage = "navigation"
       /\ unload_log[j].stage = "navigation_driver"

----------------------------------------------------------------------------
(* Properties of the candidate selection *)

\* Positions of the given list whose config has the given name.
Matches(robot_name, cfgs) ==
  {i \in 1..Len(cfgs) : configs[cfgs[i]].name = robot_name}

\* C8: findRobot("", configs) on a non-empty list returns a config of
\* maximal reliability, and among several of maximal reliability the one
\* that comes first in the list.
C8_BestAndFirst ==
  (find_calls = 1 /\ find_name = "" /\ remote_configs # <<>>)
  =>
  /\ find_res # NULL
  /\ \E i \in 1..Len(remote_configs) :
       /\ remote_configs[i] = find_res
       /\ \A j \in 1..Len(remote_configs) :
            /\ configs[find_res].reliability >= configs[remote_configs[j]].reliability
            /\ configs[remote_configs[j]].reliability = configs[find_res].reliability
                 => i <= j

\* C9: findRobot(name, configs) with a non-empty name returns "not found"
\* exactly when no config has that name, otherwise a config with that name
\* of maximal reliability among those with that name, and leaves the given
\* list as it was.
C9_FindByName ==
  [][(find_calls' # find_calls /\ find_name' # "")
     =>
     LET m == Matches(find_name', remote_configs)
     IN  /\ (find_res' = NULL) <=> (m = {})
         /\ find_res' # NULL =>
              /\ \E i \in m : remote_configs[i] = find_res'
              /\ \A j \in m : configs[find_res'].reliability
                                >= configs[remote_configs[j]].reliability
         /\ remote_configs' = remote_configs
         /\ configs' = configs]_vars

C9_Witness ==
  /\ find_calls = 1 /\ find_name = "arm1" /\ find_res # NULL
  /\ \E j \in Matches("arm1", remote_configs) :
       configs[remote_configs[j]].reliability < configs[find_res].reliability
  /\ \E j \in Matches("arm2", remote_configs) :
       configs[remote_configs[j]].reliability > configs[find_res].reliability

C9_NotFoundWitness ==
  find_calls = 1 /\ find_name = "arm3" /\ find_res = NULL /\ Len(remote_configs) = MaxFind

\* C10: when a local config matches the name of a Load, the load is done on
\* a local config and nothing is forwarded to another coordinator, whatever
\* the reliabilities of the local and remote candidates.
C10_LocalFirst ==
  [][(/\ LoadReceived
      /\ \E i \in 1..Len(local_configs) :
           reply'.name = "" \/ configs[local_configs[i]].name = reply'.name)
     =>
     (/\ fwd_log' = fwd_log
      /\ \E i \in 1..Len(local_configs) : local_configs[i] = reply'.cfg
      /\ configs[reply'.cfg].temoto_namespace = LocalNs
      /\ reply'.name # "" => configs[reply'.cfg].name = reply'.name)]_vars

C10_Witness ==
  /\ reply.op = "load" /\ reply.code = "OK" /\ reply.name = "arm1"
  /\ reply.cfg = 1 /\ fwd_log = <<>>
  /\ \E i \in 1..Len(loaded_robots) : loaded_robots[i].config = 1
  /\ \E j \in 1..Len(remote_configs) :
       /\ configs[remote_configs[j]].name = "arm1"
       /\ configs[remote_configs[j]].reliability > configs[1].reliability

----------------------------------------------------------------------------
(* Properties of the Load and Unload requests *)

\* C11: a Load that resolves to a remote config sends one load request to
\* the manager of the namespace the config carries, and a Robot for that
\* config is appended to the loaded set only when that call succeeded.
C11_ForwardBeforeProxy ==
  [][(/\ LoadReceived
      /\ reply'.cfg # NULL
      /\ \E i \in 1..Len(remote_configs) : remote_configs[i] = reply'.cfg)
     =>
     (/\ Len(fwd_log') = Len(fwd_log) + 1
      /\ SubSeq(fwd_log', 1, Len(fwd_log)) = fwd_log
      /\ LET sent == fwd_log'[Len(fwd_log')]
         IN  /\ sent.to = configs[reply'.cfg].temoto_namespace
             /\ sent.robot_name = reply'.name
             /\ IF sent.ok
                THEN /\ Len(loaded_robots') = Len(loaded_robots) + 1
                     /\ SubSeq(loaded_robots', 1, Len(loaded_robots)) = loaded_robots
                     /\ loaded_robots'[Len(loaded_robots')].config = reply'.cfg
                     /\ reply'.code = "OK"
                ELSE /\ loaded_robots' = loaded_robots
                     /\ reply'.code # "OK")]_vars

C11_Witness ==
  /\ reply.op = "load" /\ reply.code = "OK" /\ reply.cfg = 3
  /\ fwd_log # <<>>
  /\ fwd_log[Len(fwd_log)].to = RemoteNs
  /\ fwd_log[Len(fwd_log)].ok
  /\ loaded_robots # <<>>
  /\ loaded_robots[Len(loaded_robots)].config = 3

\* C12: a Load whose name matches no local and no remote config fails with
\* robot-not-found, an Unload whose name no loaded Robot has fails with an
\* error, and neither changes the loaded set or the config lists.
C12_NotFoundChangesNothing ==
  [][(\/ /\ LoadReceived
         /\ \A i \in 1..Len(local_configs) :
              reply'.name # "" /\ configs[local_configs[i]].name # reply'.name
         /\ \A i \in 1..Len(remote_configs) :
              reply'.name # "" /\ configs[remote_configs[i]].name # reply'.name
      \/ /\ UnloadReceived
         /\ \A i \in 1..Len(loaded_robots) :
              configs[loaded_robots[i].config].name # reply'.name)
     =>
     (/\ reply'.code = (IF reply'.op = "load" THEN "ROBOT_NOT_FOUND" ELSE "UNLOAD_FAILED")
      /\ loaded_robots' = loaded_robots
      /\ configs' = configs
      /\ local_configs' = local_configs
      /\ remote_configs' = remote_configs
      /\ resources' = resources
      /\ fwd_log' = fwd_log)]_vars

C12_Witness ==
  /\ reply.op = "unload" /\ reply.code = "UNLOAD_FAILED" /\ reply.name = "base1"
  /\ loaded_robots # <<>>

C12_LoadWitness ==
  /\ reply.op = "load" /\ reply.code = "ROBOT_NOT_FOUND" /\ reply.name = "base1"
  /\ local_configs # <<>> /\ remote_configs # <<>>

\* C13: an Unload of a loaded robot removes exactly one Robot with that
\* name from the loaded set and runs its teardown; every other loaded Robot,
\* the state of its config included, and both config lists stay as they
\* were.
C13_UnloadRemovesOne ==
  [][(/\ UnloadReceived
      /\ \E i \in 1..Len(loaded_robots) :
           configs[loaded_robots[i].config].name = reply'.name)
     =>
     \E i \in 1..Len(loaded_robots) :
       /\ configs[loaded_robots[i].config].name = reply'.name
       /\ loaded_robots' = SubSeq(loaded_robots, 1, i - 1)
                           \o SubSeq(loaded_robots, i + 1, Len(loaded_robots))
       /\ Len(unload_log') >= 1 <=> ToRelease(loaded_robots[i].config) # <<>>
       /\ \A j \in 1..Len(loaded_robots) :
            j # i => configs'[loaded_robots[j].config] = configs[loaded_robots[j].config]
       /\ local_configs' = local_configs
       /\ remote_configs' = remote_configs]_vars

----------------------------------------------------------------------------
(* Properties of the operation endpoints *)

\* The endpoints that work on a loaded Robot.
Endpoints == {"plan", "execute", "get_target", "navigate", "gripper_control",
              "get_viz_info"}

\* A request of one of the operation endpoints was received in this step.
OperationReceived ==
  nreq' = nreq + 1 /\ reply'.op \in Endpoints \cup {"get_config"}

\* The loaded Robots that have the name of the request of this step.
Named == {i \in 1..Len(loaded_robots) :
            configs[loaded_robots[i].config].name = reply'.name}

\* C14: at each operation endpoint (plan, execute, get-target, navigate,
\* gripper-control, get-viz-info, get-config) a request that names a robot
\* which is not in the loaded set fails with a not-found error and causes
\* no local execution and no forwarded call.
C14_NotLoadedFails ==
  [][(OperationReceived /\ Named = {})
     =>
     (/\ reply'.code = "NULL_PTR"
      /\ robot_calls' = <<>>
      /\ planner_calls' = <<>>
      /\ client_calls' = <<>>)]_vars

\* C15: at each endpoint that works on a loaded Robot, a request for a Robot
\* of another namespace is sent unchanged to the same endpoint of that
\* namespace's manager, the answer of the call is returned unchanged and
\* nothing is run on the local Robot; a request for a Robot of the own
\* namespace is run locally and sends no call.
C15_RoutedByNamespace ==
  [][(OperationReceived /\ reply'.op \in Endpoints /\ Named # {})
     =>
     IF configs[reply'.cfg].temoto_namespace # LocalNs
     THEN /\ Len(client_calls') = 1
          /\ client_calls'[1].to = configs[reply'.cfg].temoto_namespace
          /\ client_calls'[1].service = reply'.op
          /\ client_calls'[1].request = reply'.request
          /\ client_calls'[1].ok => reply'.response = client_calls'[1].response
          /\ robot_calls' = <<>>
          /\ planner_calls' = <<>>
     ELSE /\ client_calls' = <<>>
          /\ Len(robot_calls') = 1
          /\ robot_calls'[1].robot = reply'.robot]_vars

\* C16: when the call forwarded to another manager fails, the request ends
\* with the request-failed error, the call was made exactly once, and the
\* loaded set and the config lists are as before.
C16_FailedForwardReported ==
  [][(/\ OperationReceived
      /\ \E k \in 1..Len(client_calls') : ~client_calls'[k].ok)
     =>
     (/\ reply'.code = "SERVICE_REQ_FAIL"
      /\ Len(client_calls') = 1
      /\ loaded_robots' = loaded_robots
      /\ configs' = configs
      /\ local_configs' = local_configs
      /\ remote_configs' = remote_configs)]_vars

C16_Witness ==
  /\ reply.op \in Endpoints /\ reply.code = "SERVICE_REQ_FAIL"
  /\ Len(client_calls) = 1 /\ ~client_calls[1].ok
  /\ client_calls[1].to = RemoteNs
  /\ Len(loaded_robots) >= 2

\* The planning-session calls of the given kind made in this step.
PlannerCalled(call) ==
  \E k \in 1..Len(planner_calls') : planner_calls'[k].call = call

\* C17: an executePlan for a loaded Robot of the own namespace for which no
\* plan call has succeeded yet fails with an error reported to the caller,
\* and the planning session's execute is not called.
C17_ExecuteWithoutPlanFails ==
  [][(/\ OperationReceived /\ reply'.op = "execute" /\ Named # {}
      /\ configs[reply'.cfg].temoto_namespace = LocalNs
      /\ \A i \in 1..Len(loaded_robots) :
           loaded_robots[i].req = reply'.robot => loaded_robots[i].last_plan = NULL)
     =>
     (/\ reply'.code # "OK"
      /\ ~PlannerCalled("execute"))]_vars

\* C18: a plan call in which the planner finds no plan reports a planning
\* failure and leaves the Robot's plan-valid flag false, also after an
\* earlier plan had succeeded; an executePlan on a Robot whose flag is false
\* does not call the planning session's execute; and the flag of a Robot
\* becomes true only in a plan call on that Robot that succeeded.
C18_FailedPlanClearsFlag ==
  [][OperationReceived =>
     /\ (PlannerCalled("plan") /\ ~planner_calls'[1].ok) =>
          /\ reply'.code = "ROBOT_PLAN_FAIL"
          /\ \A i \in 1..Len(loaded_robots') :
               loaded_robots'[i].req = reply'.robot => ~loaded_robots'[i].is_plan_valid
     /\ (/\ reply'.op = "execute" /\ Named # {}
         /\ configs[reply'.cfg].temoto_namespace = LocalNs
         /\ \A i \in 1..Len(loaded_robots) :
              loaded_robots[i].req = reply'.robot => ~loaded_robots[i].is_plan_valid)
        => ~PlannerCalled("execute")
     /\ \A i \in 1..Len(loaded_robots), j \in 1..Len(loaded_robots') :
          (/\ loaded_robots[i].req = loaded_robots'[j].req
           /\ ~loaded_robots[i].is_plan_valid
           /\ loaded_robots'[j].is_plan_valid)
          => (/\ reply'.op = "plan" /\ reply'.code = "OK"
              /\ reply'.robot = loaded_robots[i].req
              /\ PlannerCalled("plan"))]_vars

C18_Witness ==
  /\ reply.op = "plan" /\ reply.code = "ROBOT_PLAN_FAIL"
  /\ Len(planner_calls) = 1 /\ ~planner_calls[1].ok
  /\ \E i \in 1..Len(loaded_robots) :
       /\ loaded_robots[i].req = reply.robot
       /\ loaded_robots[i].last_plan # NULL
       /\ ~loaded_robots[i].is_plan_valid

----------------------------------------------------------------------------
(* Properties of the config synchronisation *)

\* An ADVERTISE_CONFIG message was handled in this step.
AdvertiseReceived ==
  sync_recv'.n = sync_recv.n + 1 /\ sync_recv'.action = "ADVERTISE_CONFIG"

\* The robot descriptions of the message of this step that parseRobotConfigs
\* keeps: the first one of each name.
Advertised ==
  {k \in 1..Len(sync_recv'.robots) :
     /\ sync_recv'.robots[k].kind = "robot"
     /\ \A h \in 1..(k - 1) :
          sync_recv'.robots[h].kind = "robot" =>
            sync_recv'.robots[h].name # sync_recv'.robots[k].name}

\* Positions of the cache entries with the given name and namespace.
Cached(cfgs, cache, name, ns) ==
  {i \in 1..Len(cache) :
     cfgs[cache[i]].name = name /\ cfgs[cache[i]].temoto_namespace = ns}

\* C19: when a config that the sender has advertised before (the cache holds
\* an entry with its name and the sender's namespace) is advertised again
\* by the same sender, the cache afterwards holds exactly one entry with
\* that name and namespace, and the entry has the fields of the later
\* advertisement.
C19_MergeIdempotent ==
  [][AdvertiseReceived =>
     \A k \in Advertised :
       LET e == sync_recv'.robots[k]
           ns == sync_recv'.temoto_namespace
       IN  Cached(configs, remote_configs, e.name, ns) # {} =>
             /\ Cardinality(Cached(configs', remote_configs', e.name, ns)) = 1
             /\ \A i \in Cached(configs', remote_configs', e.name, ns) :
                  configs'[remote_configs'[i]].reliability = e.reliability]_vars

C19_Witness ==
  /\ sync_recv.n = 2 /\ sync_recv.action = "ADVERTISE_CONFIG"
  /\ sync_recv.temoto_namespace = OtherNs
  /\ sync_recv.robots = <<[kind |-> "robot", name |-> "arm1", reliability |-> 0]>>
  /\ remote_configs # <<>>
  /\ Cardinality(Cached(configs, remote_configs, "arm1", OtherNs)) = 1
  /\ \A i \in Cached(configs, remote_configs, "arm1", OtherNs) :
       configs[remote_configs[i]].reliability = 0

\* C20: the remote cache never holds two entries with the same name and
\* namespace.  Handling an advertisement keeps every cache entry at its
\* position with its name and namespace; an entry changes only when a
\* config with its name was advertised by its namespace; and the cache grows
\* by exactly one entry, with the sender's namespace, for each advertised
\* name that the cache did not hold for that sender.
C20_OneEntryPerIdentity ==
  [][/\ \A i, j \in 1..Len(remote_configs') :
          (/\ configs'[remote_configs'[i]].name = configs'[remote_configs'[j]].name
           /\ configs'[remote_configs'[i]].temoto_namespace
                = configs'[remote_configs'[j]].temoto_namespace)
          => i = j
     /\ AdvertiseReceived =>
          LET ns == sync_recv'.temoto_namespace
              names == {sync_recv'.robots[k].name : k \in Advertised}
              fresh == {n \in names : Cached(configs, remote_configs, n, ns) = {}}
          IN  /\ Len(remote_configs') = Len(remote_configs) + Cardinality(fresh)
              /\ \A i \in 1..Len(remote_configs) :
                   LET before == configs[remote_configs[i]]
                       after == configs'[remote_configs'[i]]
                   IN  /\ after.name = before.name
                       /\ after.temoto_namespace = before.temoto_namespace
                       /\ ~(before.name \in names /\ before.temoto_namespace = ns)
                            => after = before
              /\ \A i \in (Len(remote_configs) + 1)..Len(remote_configs') :
                   /\ configs'[remote_configs'[i]].name \in fresh
                   /\ configs'[remote_configs'[i]].temoto_namespace = ns]_vars

C20_Witness ==
  /\ sync_recv.n = 2 /\ sync_recv.action = "ADVERTISE_CONFIG"
  /\ sync_recv.temoto_namespace = RemoteNs
  /\ Len(remote_configs) = 2
  /\ configs[remote_configs[1]].name = "arm2"
  /\ configs[remote_configs[1]].temoto_namespace = RemoteNs
  /\ configs[remote_configs[1]].reliability = 1
  /\ configs[remote_configs[2]].name = "arm2"
  /\ configs[remote_configs[2]].temoto_namespace = OtherNs

----------------------------------------------------------------------------
(* Properties of the config request *)

\* A REQUEST_CONFIG message has been handled in this step.
RequestReceived ==
  sync_recv'.n = sync_recv.n + 1 /\ sync_recv'.action = "REQUEST_CONFIG"

\* The document that carries every local config, in list order.
LocalDocument ==
  [i \in 1..Len(local_configs) |->
     [name |-> configs[local_configs[i]].name,
      reliability |-> configs[local_configs[i]].reliability]]

\* Handling the request changes no config, cache or loaded Robot.
RequestKeepsState ==
  UNCHANGED <<configs, local_configs, remote_configs, loaded_robots>>

\* C21 (as stated): on REQUEST_CONFIG the coordinator broadcasts one
\* ADVERTISE_CONFIG document carrying all of its local configs, and its local
\* configs, remote cache and loaded set are unchanged.
C21_RequestAdvertisesAll ==
  [][RequestReceived =>
       /\ sync_sent' = Append(sync_sent, LocalDocument)
       /\ RequestKeepsState]_vars

\* C21 (amended): on REQUEST_CONFIG a coordinator that has at least one local
\* config broadcasts one ADVERTISE_CONFIG document carrying all of them, a
\* coordinator without local configs broadcasts nothing, and in both cases
\* its local configs, remote cache and loaded set are unchanged.
C21_RequestAdvertisesIfAny ==
  [][RequestReceived =>
       /\ IF local_configs # <<>>
          THEN sync_sent' = Append(sync_sent, LocalDocument)
          ELSE sync_sent' = sync_sent
       /\ RequestKeepsState]_vars

\* A request has been answered with a document of two configs.
C21_Witness ==
  /\ sync_recv.action = "REQUEST_CONFIG"
  /\ sync_sent # <<>>
  /\ Len(sync_sent[Len(sync_sent)]) = 2
  /\ Len(local_configs) = 2

----------------------------------------------------------------------------
(* Properties of the description files *)

\* A description file has been read in this step.
DescriptionRead == desc_read'.n = desc_read.n + 1

\* C30: after reading any number of description documents no two configs of
\* the local config list have the same name; an entry whose name is already
\* present is ignored and the earlier entry is kept unchanged.
C30_LocalNamesUnique ==
  [][DescriptionRead =>
       /\ \A i, j \in 1..Len(local_configs') :
            i # j => configs'[local_configs'[i]].name # configs'[local_configs'[j]].name
       /\ Len(local_configs') >= Len(local_configs)
       /\ \A i \in 1..Len(local_configs) :
            /\ local_configs'[i] = local_configs[i]
            /\ configs'[local_configs[i]] = configs[local_configs[i]]]_vars

\* The second file described "arm1" again, differently, and "arm2": the list
\* holds the first description of "arm1" and that of "arm2".
C30_Witness ==
  /\ desc_read.n = 2
  /\ desc_read.doc.robots = <<[kind |-> "robot", name |-> "arm1", reliability |-> 0],
                              [kind |-> "robot", name |-> "arm2", reliability |-> 1]>>
  /\ Len(local_configs) = 2
  /\ configs[local_configs[1]].name = "arm1"
  /\ configs[local_configs[1]].reliability = 1
  /\ configs[local_configs[2]].name = "arm2"

\* The well-formed entries of a document that do not repeat the name of an
\* earlier well-formed entry.
FirstOfName(robots) ==
  {k \in 1..Len(robots) :
     /\ robots[k].kind = "robot"
     /\ \A h \in 1..(k - 1) :
          robots[h].kind = "robot" => robots[h].name # robots[k].name}

\* The names of the configs in a list.
NamesIn(cfgs, list) == {cfgs[list[i]].name : i \in 1..Len(list)}

\* C29: parsing a document (a description file or a received advertisement)
\* that holds malformed entries yields every well-formed, non-duplicate entry
\* and skips only the malformed ones: the handler runs to its end, every
\* well-formed entry that is the first of its name is registered with its
\* content, and nothing else is added.
C29_MalformedSkipped ==
  [][/\ AdvertiseReceived /\ sync_recv'.ok =>
          LET robots == sync_recv'.robots
              ns == sync_recv'.temoto_namespace
              fresh == {robots[k].name : k \in FirstOfName(robots)}
                         \ {configs[remote_configs[i]].name :
                              i \in {j \in 1..Len(remote_configs) :
                                       configs[remote_configs[j]].temoto_namespace = ns}}
          IN  /\ alive'
              /\ \A k \in FirstOfName(robots) :
                   \E i \in 1..Len(remote_configs') :
                     /\ configs'[remote_configs'[i]].name = robots[k].name
                     /\ configs'[remote_configs'[i]].temoto_namespace = ns
                     /\ configs'[remote_configs'[i]].reliability = robots[k].reliability
              /\ Len(remote_configs') = Len(remote_configs) + Cardinality(fresh)
     /\ DescriptionRead /\ desc_read'.doc.ok =>
          LET robots == desc_read'.doc.robots
              fresh == {k \in FirstOfName(robots) :
                          robots[k].name \notin NamesIn(configs, local_configs)}
          IN  /\ alive'
              /\ \A k \in fresh :
                   \E i \in (Len(local_configs) + 1)..Len(local_configs') :
                     /\ configs'[local_configs'[i]].name = robots[k].name
                     /\ configs'[local_configs'[i]].temoto_namespace = LocalNs
                     /\ configs'[local_configs'[i]].reliability = robots[k].reliability
              /\ Len(local_configs') = Len(local_configs) + Cardinality(fresh)]_vars

\* An advertisement with an entry that does not parse between two robots
\* has been handled, and both robots are in the cache.
C29_Witness ==
  /\ sync_recv.action = "ADVERTISE_CONFIG"
  /\ Len(sync_recv.robots) = 3
  /\ sync_recv.robots[2].kind = "invalid"
  /\ NamesIn(configs, remote_configs) = {"arm1", "arm2"}
  /\ alive

\* A description file with an entry that is not a map before a robot has
\* been read, and the robot is in the local list.
C29_ReadWitness ==
  /\ desc_read.n = 1
  /\ Len(desc_read.doc.robots) = 2
  /\ desc_read.doc.robots[1].kind = "scalar"
  /\ desc_read.doc.robots[2].kind = "robot"
  /\ Len(local_configs) = 1

----------------------------------------------------------------------------
(* Properties of a system of several coordinators *)

\* Coordinator b's remote cache holds coordinator a's local config i, under
\* a's namespace and with its content.
KnownAt(b, a, i) ==
  LET config == net[a].configs[net[a].local_configs[i]]
  IN  \E j \in 1..Len(net[b].remote_configs) :
        LET cached == net[b].configs[net[b].remote_configs[j]]
        IN  /\ cached.name = config.name
            /\ cached.temoto_namespace = Namespace(a)
            /\ cached.reliability = config.reliability

\* Every coordinator has read its description files, and its remote cache
\* holds every local config of every other coordinator.
Converged ==
  \A a \in Coordinators :
    /\ net[a].pc = "spinning"
    /\ \A b \in Coordinators \ {a} :
         \A i \in 1..Len(net[a].local_configs) : KnownAt(b, a, i)

\* C22: with two or more coordinators and every sync message delivered, in
\* whatever order the coordinators start, eventually each coordinator's
\* remote cache holds every local config of every other coordinator under
\* the owner's namespace, and keeps holding it.
C22_Converges == <>[]Converged

\* Two coordinators with two local configs each know each other's configs.
C22_Witness ==
  /\ net # NoNet
  /\ Converged
  /\ \A a \in Coordinators : Len(net[a].local_configs) = 2
  /\ \A a \in Coordinators : Len(net[a].remote_configs) >= 2

----------------------------------------------------------------------------
(* Properties of the config introspection *)

\* C23: getRobotConfig(name) returns the first local config with that name
\* when there is one, otherwise the first remote config with that name,
\* with an absolute namespace that starts with the namespace of the config's
\* owner; when neither list has the name the caller is told that the robot
\* was not found, the coordinator goes on running, and the registry is never
\* changed.
C23_ConfigLookup ==
  [][(nreq' = nreq + 1 /\ reply'.op = "get_config") =>
       LET name == reply'.request.robot_name
           inLocal == {i \in 1..Len(local_configs) :
                         configs[local_configs[i]].name = name}
           inRemote == {i \in 1..Len(remote_configs) :
                          configs[remote_configs[i]].name = name}
           first(S) == CHOOSE i \in S : \A j \in S : i <= j
           found == IF inLocal # {} THEN local_configs[first(inLocal)]
                    ELSE remote_configs[first(inRemote)]
           result == getRobotConfig(reply')
       IN  /\ UNCHANGED <<configs, local_configs, remote_configs, loaded_robots>>
           /\ alive'
           /\ IF inLocal # {} \/ inRemote # {}
              THEN /\ reply'.cfg = found
                   /\ result.kind = "node"
                   /\ result.node[1] = configs[found].temoto_namespace
                   /\ result.node[Len(result.node)] = name
              ELSE result.kind = "error"]_vars

----------------------------------------------------------------------------
(* Properties of the resource status notifications *)

\* The resource for which a FAILED status arrives in this step.
FailedNow == failed' \ failed

\* The resource backs a step that is marked loaded in the config of a Robot
\* of the loaded set.
BacksLoadedRobot(id) ==
  /\ id \in 1..Len(resources)
  /\ ~resources[id].released
  /\ configs[resources[id].cfg].loaded[resources[id].stage]
  /\ configs[resources[id].cfg].resource_id[resources[id].stage] = id
  /\ \E i \in 1..Len(loaded_robots) : loaded_robots[i].config = resources[id].cfg

\* C24: a FAILED status on a tracked resource that belongs to a loaded robot
\* and is marked loaded causes exactly one unload of the resource followed
\* by exactly one launch of the same specification, and changes no other
\* Feature and no other Robot.
C24_FailedResourceReloaded ==
  [][\A id \in FailedNow :
       BacksLoadedRobot(id) =>
         LET c == resources[id].cfg
             s == resources[id].stage
         IN  /\ resources'[id].released
             /\ Len(resources') = Len(resources) + 1
             /\ resources'[Len(resources')].cfg = c
             /\ resources'[Len(resources')].stage = s
             /\ \A h \in 1..Len(resources) : h # id => resources'[h] = resources[h]
             /\ \A t \in Stages \ {s} :
                  /\ configs'[c].loaded[t] = configs[c].loaded[t]
                  /\ configs'[c].resource_id[t] = configs[c].resource_id[t]
             /\ \A d \in DOMAIN configs : d # c => configs'[d] = configs[d]
             /\ loaded_robots' = loaded_robots]_vars

\* C25: a FAILED status for a resource of a loaded robot lowers the
\* reliability of that robot's config toward zero and advertises the config
\* again, and the config stays in the registry.
C25_FailedLowersReliability ==
  [][\A id \in FailedNow :
       BacksLoadedRobot(id) =>
         LET c == resources[id].cfg
         IN  /\ configs'[c].reliability <= configs[c].reliability
             /\ configs[c].reliability > 0 =>
                  configs'[c].reliability < configs[c].reliability
             /\ Len(sync_sent') = Len(sync_sent) + 1
             /\ \E k \in 1..Len(sync_sent'[Len(sync_sent')]) :
                  /\ sync_sent'[Len(sync_sent')][k].name = configs[c].name
                  /\ sync_sent'[Len(sync_sent')][k].reliability = configs'[c].reliability
             /\ local_configs' = local_configs
             /\ remote_configs' = remote_configs]_vars

----------------------------------------------------------------------------
(* Properties of a failed launch request *)

\* The launch request of the load in progress has failed in this step.
LaunchFailed ==
  cur.pc = "launch" /\ cur'.pc = "idle" /\ reply'.code = "RESOURCE_REQUEST_FAIL"

\* C26: when a launch request made during the load of a local robot fails,
\* the error is passed on to the caller of Load, the reliability of the
\* config is lowered, and the config is advertised again.
C26_LaunchFailureDowngrades ==
  [][LaunchFailed =>
       LET c == cur.cfg
       IN  /\ reply'.op = "load" /\ reply'.code # "OK"
           /\ configs[c].reliability > 0 =>
                configs'[c].reliability < configs[c].reliability
           /\ Len(sync_sent') = Len(sync_sent) + 1
           /\ \E k \in 1..Len(sync_sent'[Len(sync_sent')]) :
                /\ sync_sent'[Len(sync_sent')][k].name = configs[c].name
                /\ sync_sent'[Len(sync_sent')][k].reliability = configs'[c].reliability]_vars

----------------------------------------------------------------------------
(* Invariants of the Feature flags *)

C27_UnloadWitness ==
  /\ reply.op = "unload" /\ reply.code = "OK"
  /\ \E r \in 1..Len(resources) :
       /\ resources[r].released
       /\ ~configs[resources[r].cfg].loaded[resources[r].stage]


\* C28: in every state of a Robot, the states inside its load sequence
\* included, the Robot holds planning sessions only if the manipulation
\* controller of its config is marked loaded.
C28_GroupsOnlyIfLoaded ==
  /\ \A i \in 1..Len(loaded_robots) :
       loaded_robots[i].planning_groups # <<>> =>
         configs[loaded_robots[i].config].loaded["manipulation"]
  /\ (cur.pc # "idle" /\ cur.groups # <<>>) =>
       configs[cur.cfg].loaded["manipulation"]

----------------------------------------------------------------------------
(* Properties of a Robot that stands for a remote robot *)

\* C32: a Robot on a config owned by another coordinator issues no launch
\* request when it is constructed, issues no release request and deletes no
\* parameters when it is destructed, and the loaded flags of such a config
\* never change.
C32_RemoteRobotIsProxy ==
  [][/\ (/\ LoadReceived
         /\ reply'.cfg # NULL
         /\ configs[reply'.cfg].temoto_namespace # LocalNs)
        => (/\ resources' = resources
            /\ cur' = Idle
            /\ configs' = configs)
     /\ (/\ UnloadReceived
         /\ reply'.cfg # NULL
         /\ configs[reply'.cfg].temoto_namespace # LocalNs)
        => (/\ unload_log' = <<>>
            /\ deleted_params' = <<>>
            /\ resources' = resources
            /\ configs' = configs)
     /\ \A c \in DOMAIN configs \cap DOMAIN configs' :
          configs[c].temoto_namespace # LocalNs
            => /\ configs'[c].loaded = configs[c].loaded
               /\ configs'[c].resource_id = configs[c].resource_id]_vars

\* A Robot on a remote config was loaded and has been unloaded again.
C32_Witness ==
  /\ reply.op = "unload" /\ reply.code = "OK"
  /\ reply.cfg # NULL
  /\ configs[reply.cfg].temoto_namespace = RemoteNs
  /\ fwd_log # <<>>
  /\ unload_log = <<>>
  /\ deleted_params = <<>>

----------------------------------------------------------------------------
(* Properties of a failed Load *)

\* C33: a Load request that fails, whether in the local load sequence, in
\* the call to the remote owner or because no config matches, leaves the
\* set of loaded Robots as it was: from the step that receives the request
\* to the step that reports the failure no step changes the loaded set.
C33_FailedLoadKeepsLoadedSet ==
  [][(reply'.op = "load" /\ reply'.code # "OK")
     => loaded_robots' = loaded_robots]_vars

\* A Load failed inside the load sequence, after a launch request, while
\* an earlier Robot is loaded.
C33_Witness ==
  /\ reply.op = "load" /\ reply.code = "SERVICE_STATUS_FAIL"
  /\ cur = Idle
  /\ loaded_robots # <<>>
  /\ \E r \in 1..Len(resources) : resources[r].req = reply.req

\* A Load failed because the call to the remote owner failed.
C33_RemoteWitness ==
  /\ reply.op = "load" /\ reply.code = "REMOTE_CALL_FAILED"
  /\ fwd_log # <<>> /\ ~fwd_log[Len(fwd_log)].ok


\* The resources launched by the Load request that the latest reply is for.
LaunchedByRequest == {r \in 1..Len(resources) : resources[r].req = reply.req}

\* C34: when the load sequence of a locally owned Robot has failed after
\* it launched resources, every resource launched in that attempt has been
\* released and no Feature of the config is marked loaded (no loaded Robot
\* holding the config from an earlier Load).
C34_FailedLoadRollsBack ==
  (/\ reply.op = "load" /\ cur = Idle
   /\ reply.code \notin {"OK", "PENDING"}
   /\ reply.cfg # NULL
   /\ configs[reply.cfg].temoto_namespace = LocalNs
   /\ LaunchedByRequest # {}
   /\ ~HeldByRobot(reply.cfg))
  => /\ \A r \in LaunchedByRequest : resources[r].released
     /\ \A s \in Stages : ~configs[reply.cfg].loaded[s]

----------------------------------------------------------------------------
(* Invariants of the loaded set *)

\* C35: the loaded set holds at most one Robot per robot config, a config
\* being identified by its name and owning namespace.
C35_OneRobotPerConfig ==
  \A i, j \in 1..Len(loaded_robots) :
    (/\ configs[loaded_robots[i].config].name = configs[loaded_robots[j].config].name
     /\ configs[loaded_robots[i].config].temoto_namespace
          = configs[loaded_robots[j].config].temoto_namespace)
    => i = j

----------------------------------------------------------------------------
(* Properties of loading a stage twice *)

\* C36: a stage that is marked loaded is not launched again and keeps its
\* resource id: no step issues a launch request for a stage whose loaded
\* flag is set, and no step changes the resource id of such a stage.
C36_LoadedStageNotLaunched ==
  [][/\ Len(resources') > Len(resources)
        => LET r == resources'[Len(resources')]
           IN  ~configs[r.cfg].loaded[r.stage]
     /\ \A c \in DOMAIN configs \cap DOMAIN configs' : \A s \in Stages :
          configs[c].loaded[s]
            => configs'[c].resource_id[s] = configs[c].resource_id[s]]_vars


\* The config objects that are elements of the local list or of the cache.
RegisteredConfigs ==
  {local_configs[i] : i \in 1..Len(local_configs)}
    \cup {remote_configs[i] : i \in 1..Len(remote_configs)}

\* C37: every Robot of the loaded set refers to a config object that is an
\* element of the local config list or of the remote config cache, also
\* after advertisements have overwritten the cache entry of a loaded robot.
C37_LoadedConfigRegistered ==
  \A i \in 1..Len(loaded_robots) : loaded_robots[i].config \in RegisteredConfigs

----------------------------------------------------------------------------
(* Invariants of the stored plan *)

\* The plan-valid flag of a Robot implies that the active planning group of
\* its config is one of the Robot's sessions and that the stored plan was
\* made by that group.
ValidPlanHasGroup(cfgs, robots) ==
  \A i \in 1..Len(robots) :
    robots[i].is_plan_valid
      => /\ cfgs[robots[i].config].active_planning_group \in Groups(robots[i])
         /\ robots[i].last_plan # NULL
         /\ robots[i].last_plan_group = cfgs[robots[i].config].active_planning_group

\* C38: whenever a Robot's plan-valid flag is true its active planning
\* group names one of its planning sessions and the stored plan is the one
\* its most recent successful plan call made with that group (a successful
\* plan call stores its own plan, and no other step changes the plan of a
\* Robot whose flag is true).  A plan request that fails because the group
\* is unknown or the Robot has no group changes neither the flag, the
\* stored plan nor the active planning group.
C38_ValidPlanIsLatest ==
  [][/\ ValidPlanHasGroup(configs, loaded_robots)
     /\ ValidPlanHasGroup(configs', loaded_robots')
     /\ \A i \in 1..Len(loaded_robots), j \in 1..Len(loaded_robots') :
          (loaded_robots[i].req = loaded_robots'[j].req /\ loaded_robots'[j].is_plan_valid)
          => IF reply'.op = "plan" /\ reply'.code = "OK" /\ reply'.robot = loaded_robots[i].req
                /\ configs[loaded_robots[i].config].temoto_namespace = LocalNs
             THEN /\ loaded_robots'[j].last_plan = reply'.req
                  /\ planner_calls' = <<[group |-> loaded_robots'[j].last_plan_group,
                                         call |-> "plan", plan |-> reply'.req, ok |-> TRUE]>>
             ELSE /\ loaded_robots'[j].last_plan = loaded_robots[i].last_plan
                  /\ loaded_robots'[j].last_plan_group = loaded_robots[i].last_plan_group
     /\ (/\ reply'.op = "plan" /\ nreq' = nreq + 1
         /\ reply'.code \in {"PLANNING_GROUP_NOT_FOUND", "ROBOT_PLAN_FAIL"}
         /\ planner_calls' = <<>>)
        => (loaded_robots' = loaded_robots /\ configs' = configs)]_vars

\* A plan request with the name of no session failed on a Robot that holds
\* a valid plan made by its other, non-default group.
C38_Witness ==
  /\ reply.op = "plan" /\ reply.code = "PLANNING_GROUP_NOT_FOUND"
  /\ reply.request.planning_group = "other"
  /\ \E i \in 1..Len(loaded_robots) :
       /\ loaded_robots[i].req = reply.robot
       /\ loaded_robots[i].is_plan_valid
       /\ loaded_robots[i].last_plan_group = "tool"
       /\ configs[loaded_robots[i].config].active_planning_group = "tool"

----------------------------------------------------------------------------
(* Properties of the traffic on the sync topic *)

\* The messages coordinator k's step added to the queue of coordinator h.
SentTo(h, k) ==
  IF h = k THEN <<>>
  ELSE SubSeq(net'[h].inbox, Len(net[h].inbox) + 1, Len(net'[h].inbox))

\* No sync message waits in any queue and every coordinator serves its queue.
Quiet == \A k \in Coordinators : net[k].pc = "spinning" /\ net[k].inbox = <<>>

\* C39: a coordinator that handles an ADVERTISE_CONFIG sends no sync
\* message; one that handles a REQUEST_CONFIG sends at most one
\* ADVERTISE_CONFIG, and none when it has no local config; and once the
\* coordinators have started, the sync topic eventually becomes quiet and
\* stays quiet.
C39_ChannelQuiets ==
  /\ [][\A k \in Coordinators :
          Len(net'[k].inbox) < Len(net[k].inbox)
          => /\ net'[k].inbox = Tail(net[k].inbox)
             /\ \A h \in Coordinators \ {k} :
                  /\ SubSeq(net'[h].inbox, 1, Len(net[h].inbox)) = net[h].inbox
                  /\ IF Head(net[k].inbox).action = "ADVERTISE_CONFIG"
                        \/ net[k].local_configs = <<>>
                     THEN SentTo(h, k) = <<>>
                     ELSE /\ Len(SentTo(h, k)) <= 1
                          /\ \A i \in 1..Len(SentTo(h, k)) :
                               /\ SentTo(h, k)[i].action = "ADVERTISE_CONFIG"
                               /\ SentTo(h, k)[i].temoto_namespace = Namespace(k)]_vars
  /\ <>[]Quiet

\* The topic is quiet after a coordinator without local configs has been
\* asked for its configs and has received those of the other coordinator.
C39_Witness ==
  /\ net # NoNet
  /\ Quiet
  /\ \E k \in Coordinators :
       /\ net[k].local_configs = <<>>
       /\ net[k].remote_configs # <<>>
       /\ \A h \in Coordinators \ {k} : net[h].remote_configs = <<>>

====
